---------------------------- MODULE Spec2Model ----------------------------
(***************************************************************************)
(* Model of the SolanaSwapAgent off-chain engine:                          *)
(*   price_monitor.py  PriceMonitor  (venue polling loops, price store)    *)
(*   swap_agent.py     SolanaSwapAgent (scan, trading loop, dispatch)      *)
(*   swap_executor.py  SwapExecutor  (order construction, submission)      *)
(*   utils.py          calculate_slippage_amount, calculate_profit         *)
(*                                                                         *)
(* Time is counted in ticks of one tenth of a second (TicksPerSecond), so  *)
(* that settings.price_update_interval (0.1 s) is one tick.  Prices are    *)
(* counted in hundredths (PriceUnit), so 100.50 is 10050.                  *)
(***************************************************************************)
EXTENDS Integers, Sequences, FiniteSets, TLC

VARIABLES
    \* ---- PriceMonitor ----
    dex_clients,           \* sequence of venue names, the dict's key order
    twins,                 \* venue -> live polling tasks that a further
                           \*          start() created beside the venue's task
    monitoring,            \* self.monitoring
    task,                  \* venue -> where its _monitor_dex_prices task stands
    cancel_requested,      \* venue -> task.cancel() was called on a live task
    stop_pc,               \* where PriceMonitor.stop() stands
    consecutive_failures,  \* venue -> the loop's local counter
    latest_prices,         \* self.latest_prices: venue -> (pair key -> entry)
    dex_order,             \* key order of self.latest_prices (insertion order)
    price_history,         \* self.price_history: <<venue, pair key>> -> deque
    clock,                 \* logical time stamped on quotes
    sincePoll,             \* venue -> ticks slept since its last poll returned
    failRun,               \* venue -> failed polls in a row since the last
                           \*          success or completed cooldown
    arrivals,              \* <<venue, pair key>> -> every entry ever appended
    \* ---- SolanaSwapAgent ----
    settings,              \* the configuration record
    current_time,          \* time.time() read by the scan
    price_data,            \* the snapshot the last scan read
    opportunities,         \* the list the last scan returned
    scanned,               \* a scan has run
    \* ---- trading loop and execution pipelines ----
    trading_enabled,       \* self.trading_enabled
    loop_pc,               \* where run_trading_loop stands
    cycles,                \* loop turns completed
    tasks,                 \* the pipeline tasks created and not yet dropped
    results,               \* what the last gather returned, per launched run
    completed,             \* pipeline runs finished so far
    execution_stats,       \* SwapExecutor.execution_stats
    succeeded,             \* history: the runs that returned a result, how
                           \*          many and their summed execution_time
    performance_stats,     \* SolanaSwapAgent.performance_stats
    rpc_open,              \* self.rpc_client has not been closed
    agent_stop_pc,         \* where SolanaSwapAgent.stop() stands
    \* ---- SwapExecutor._build_swap_data ----
    swap_request,          \* the arguments of _build_swap_data
    swap_data,             \* what it returned: status "None" or "built"
    \* ---- a reader of PriceMonitor.get_latest_prices ----
    snapshot,              \* the dict the reader got: venue -> price dict
    shared,                \* venues whose price dict in the snapshot is the
                           \* very object self.latest_prices still holds
    \* ---- one RateLimiter and the callers of its acquire() ----
    rate_now,              \* time.time(), in ticks of 0.05 s
    limiter,               \* last_request, and the lock: held or not, and
                           \* the callers queued on it, first come first
    caller,                \* caller -> where it stands in acquire() and, in
                           \*           its sleep, the time the sleep ends
    grants                 \* history: the last_request values set so far

monitorVars == <<dex_clients, twins, monitoring, task, cancel_requested, stop_pc,
                 consecutive_failures, latest_prices, dex_order,
                 price_history, clock, sincePoll, failRun, arrivals>>
scanVars == <<settings, current_time, price_data, opportunities, scanned>>
execVars == <<trading_enabled, loop_pc, cycles, tasks, results, completed,
              execution_stats, succeeded, performance_stats, rpc_open, agent_stop_pc>>
orderVars == <<swap_request, swap_data>>
snapVars == <<snapshot, shared>>
rateVars == <<rate_now, limiter, caller, grants>>
vars == <<monitorVars, scanVars, execVars, orderVars, snapVars, rateVars>>

(***************************************************************************)
(* Program constants                                                       *)
(***************************************************************************)
TicksPerSecond == 10
PriceUpdateIntervalTicks == 1      \* settings.price_update_interval = 0.1 s
max_failures == 5                  \* _monitor_dex_prices: max_failures = 5
PauseSeconds == 30                 \* asyncio.sleep(30.0)
BackoffCapSeconds == 30            \* min(30.0, 2 ** consecutive_failures)
min_interval == 2                  \* 1.0 / requests_per_second = 0.1 s, in ticks of 0.05 s
HistoryMaxLen == 100               \* deque(maxlen=100)
PriceUnit == 100                   \* prices in hundredths: 100.50 is 10050
PctScale == 1000                   \* percentages in thousandths: 0.696 is 696

(***************************************************************************)
(* Bounds of the model                                                     *)
(***************************************************************************)
MaxFailureCount == 7    \* cap on consecutive_failures (unbounded in the code)
MaxClock == 2           \* successful polls in the monitor specification
RingPolls == 103        \* successful polls in the history-ring specification
MaxAmount == 2200       \* order sizes 0..MaxAmount in the order specification
MaxCycles == 2          \* trading-loop turns in the engine specification
MaxEnginePolls == 2     \* successful polls in the engine specification
MaxStopPolls == 1       \* successful polls in the stop specification
MaxSnapPolls == 2       \* successful polls in the snapshot specification
MaxCallers == 3         \* concurrent callers of one RateLimiter
MaxRateClock == 6       \* no acquire() is called after this time
MaxLateTicks == 1       \* how late a sleep may end
MaxTwins == 1           \* further tasks per venue that repeated start() calls create
MaxRestartPolls == 2    \* successful polls in the restart specification

Min(a, b) == IF a <= b THEN a ELSE b
Max(a, b) == IF a >= b THEN a ELSE b

\* The value of the division p / q (p >= 0, q > 0) as a fraction in lowest
\* terms, so that equal values are equal records.
Fraction(p, q) ==
    LET g == CHOOSE d \in 1..q :
                 /\ p % d = 0 /\ q % d = 0
                 /\ \A e \in (d + 1)..q : ~(p % e = 0 /\ q % e = 0)
    IN  [num |-> p \div g, den |-> q \div g]

RECURSIVE Pow2(_)
Pow2(n) == IF n = 0 THEN 1 ELSE 2 * Pow2(n - 1)

Range(s) == {s[i] : i \in 1..Len(s)}

\* Python's None: as a venue name, and as a price (prices are never negative)
None == "None"
NoPrice == 0 - 1

Tokens == {"SOL", "USDC"}
AllVenues == {"jupiter", "raydium", "meteora"}
PairKeys == {<<a, b>> : a \in Tokens, b \in Tokens} \ {<<a, a>> : a \in Tokens}
HistoryKeys == AllVenues \X PairKeys

\* f"{token_a}-{token_b}"
PairKey(a, b) == <<a, b>>

(***************************************************************************)
(* PriceMonitor: the store                                                 *)
(***************************************************************************)
\* A price dict: a function from some pair keys to [price, timestamp].
Entry(p, ts) == [price |-> p, timestamp |-> ts]

\* float(price_data["price"]): the double nearest to the decimal price.  A
\* price of p hundredths is a double exactly when p / 100 is dyadic, that
\* is when 25 divides p; the double is kept as the decimal it came from
\* and whether it equals it.
FloatOf(p) == [nearest |-> p, exact |-> (p % 25 = 0)]

\* Mutant: a plain list, which never drops an element.
DequeAppendUnbounded(q, x) == Append(q, x)

\* deque(maxlen=100).append(x): a full deque drops its leftmost element.
DequeAppend(q, x) ==
    IF Len(q) >= HistoryMaxLen THEN Append(Tail(q), x) ELSE Append(q, x)

\* Mutant: the poll's dict is stored under every venue's key.
SetLatestAll(lp, v, prices) ==
    [w \in (DOMAIN lp) \cup {v} |-> prices]

\* self.latest_prices[dex_name] = prices: a new key goes last in the dict's
\* order, an existing key keeps its place.
SetLatest(lp, v, prices) ==
    [w \in (DOMAIN lp) \cup {v} |-> IF w = v THEN prices ELSE lp[w]]

SetOrder(ord, v) == IF v \in Range(ord) THEN ord ELSE Append(ord, v)

\* for pair_key, price_data in prices.items(): price_history[...].append(...)
HistoryUpdate(ph, v, prices) ==
    [hk \in HistoryKeys |->
        IF hk[1] = v /\ hk[2] \in DOMAIN prices
        THEN DequeAppend(ph[hk], Entry(FloatOf(prices[hk[2]].price),
                                       prices[hk[2]].timestamp))
        ELSE ph[hk]]

\* A snapshot is [order, map]: the dict's key order and its content.
\* get_latest_prices(): dict(self.latest_prices)
GetLatestPrices == [order |-> dex_order, map |-> latest_prices]

\* Mutant: a backoff that grows linearly, 2 * consecutive_failures.
BackoffTicksLinear(cf) ==
    Min(BackoffCapSeconds * TicksPerSecond, 2 * cf * TicksPerSecond)

\* sleep_time = min(30.0, 2 ** consecutive_failures), in ticks
BackoffTicks(cf) ==
    Min(BackoffCapSeconds * TicksPerSecond, Pow2(cf) * TicksPerSecond)

PauseTicks == PauseSeconds * TicksPerSecond

\* Mutant: the pause is taken after every poll that did not raise.
ShouldPauseAlways(cf) == TRUE

\* "if consecutive_failures >= max_failures" after a poll that did not raise
ShouldPause(cf) == cf >= max_failures

\* Failed polls in a row, counted afresh once a pause of the cooldown's
\* length has gone by (observer variable, not program state).
NextFailRun(v) ==
    (IF sincePoll[v] >= PauseTicks THEN 0 ELSE failRun[v]) + 1

(***************************************************************************)
(* PriceMonitor: start, the venue loops, stop                              *)
(***************************************************************************)
Live(v) == task[v] \in {"poll", "cooldown", "interval", "backoff"}

\* start(): monitoring = True, one task per dex client
MonitorStart ==
    /\ ~monitoring
    /\ \A v \in AllVenues : task[v] = "none"
    /\ monitoring' = TRUE
    /\ task' = [v \in AllVenues |->
                  IF v \in Range(dex_clients) THEN "poll" ELSE task[v]]
    /\ UNCHANGED <<dex_clients, twins, stop_pc, cancel_requested, consecutive_failures,
                   latest_prices, dex_order, price_history, clock, sincePoll,
                   failRun, arrivals>>

\* get_all_prices() returned a non-empty dict
PollSuccess(v, prices) ==
    /\ task[v] = "poll" /\ ~cancel_requested[v]
    /\ latest_prices' = SetLatest(latest_prices, v, prices)
    /\ dex_order' = SetOrder(dex_order, v)
    /\ price_history' = HistoryUpdate(price_history, v, prices)
    /\ arrivals' = [hk \in HistoryKeys |->
                      IF hk[1] = v /\ hk[2] \in DOMAIN prices
                      THEN Append(arrivals[hk],
                                  Entry(FloatOf(prices[hk[2]].price),
                                        prices[hk[2]].timestamp))
                      ELSE arrivals[hk]]
    /\ consecutive_failures' = [consecutive_failures EXCEPT ![v] = 0]
    /\ task' = [task EXCEPT ![v] = IF ShouldPause(0) THEN "cooldown"
                                   ELSE "interval"]
    /\ clock' = clock + 1
    /\ sincePoll' = [sincePoll EXCEPT ![v] = 0]
    /\ failRun' = [failRun EXCEPT ![v] = 0]
    /\ UNCHANGED <<dex_clients, twins, stop_pc, monitoring, cancel_requested>>

\* get_all_prices() returned {} or None
PollEmpty(v) ==
    /\ task[v] = "poll" /\ ~cancel_requested[v]
    /\ consecutive_failures[v] < MaxFailureCount
    /\ consecutive_failures' =
          [consecutive_failures EXCEPT ![v] = consecutive_failures[v] + 1]
    /\ task' = [task EXCEPT ![v] =
                  IF ShouldPause(consecutive_failures[v] + 1)
                  THEN "cooldown" ELSE "interval"]
    /\ failRun' = [failRun EXCEPT ![v] = NextFailRun(v)]
    /\ sincePoll' = [sincePoll EXCEPT ![v] = 0]
    /\ UNCHANGED <<dex_clients, twins, stop_pc, monitoring, cancel_requested, latest_prices,
                   dex_order, price_history, clock, arrivals>>

\* Mutant: the handler also drops the venue's latest entries.
PollRaiseClears(v) ==
    /\ task[v] = "poll" /\ ~cancel_requested[v]
    /\ consecutive_failures[v] < MaxFailureCount
    /\ consecutive_failures' =
          [consecutive_failures EXCEPT ![v] = consecutive_failures[v] + 1]
    /\ task' = [task EXCEPT ![v] = "backoff"]
    /\ failRun' = [failRun EXCEPT ![v] = NextFailRun(v)]
    /\ sincePoll' = [sincePoll EXCEPT ![v] = 0]
    /\ latest_prices' = [w \in DOMAIN latest_prices |->
                            IF w = v THEN <<>> ELSE latest_prices[w]]
    /\ UNCHANGED <<dex_clients, twins, stop_pc, monitoring, cancel_requested,
                   dex_order, price_history, clock, arrivals>>

\* get_all_prices() raised: the "except Exception" handler
PollRaise(v) ==
    /\ task[v] = "poll" /\ ~cancel_requested[v]
    /\ consecutive_failures[v] < MaxFailureCount
    /\ consecutive_failures' =
          [consecutive_failures EXCEPT ![v] = consecutive_failures[v] + 1]
    /\ task' = [task EXCEPT ![v] = "backoff"]
    /\ failRun' = [failRun EXCEPT ![v] = NextFailRun(v)]
    /\ sincePoll' = [sincePoll EXCEPT ![v] = 0]
    /\ UNCHANGED <<dex_clients, twins, stop_pc, monitoring, cancel_requested, latest_prices,
                   dex_order, price_history, clock, arrivals>>

\* await asyncio.sleep(30.0); consecutive_failures = 0
CooldownDone(v) ==
    /\ task[v] = "cooldown" /\ ~cancel_requested[v]
    /\ sincePoll' = [sincePoll EXCEPT ![v] = sincePoll[v] + PauseTicks]
    /\ consecutive_failures' = [consecutive_failures EXCEPT ![v] = 0]
    /\ task' = [task EXCEPT ![v] = "interval"]
    /\ UNCHANGED <<dex_clients, twins, stop_pc, monitoring, cancel_requested, latest_prices,
                   dex_order, price_history, clock, failRun, arrivals>>

\* await asyncio.sleep(settings.price_update_interval); while self.monitoring
IntervalDone(v) ==
    /\ task[v] = "interval" /\ ~cancel_requested[v]
    /\ sincePoll' = [sincePoll EXCEPT ![v] =
                       sincePoll[v] + PriceUpdateIntervalTicks]
    /\ task' = [task EXCEPT ![v] = IF monitoring THEN "poll" ELSE "done"]
    /\ UNCHANGED <<dex_clients, twins, stop_pc, monitoring, cancel_requested,
                   consecutive_failures, latest_prices, dex_order,
                   price_history, clock, failRun, arrivals>>

\* Mutant: the error is re-raised after the handler's sleep and ends the task.
BackoffDoneExits(v) ==
    /\ task[v] = "backoff" /\ ~cancel_requested[v]
    /\ sincePoll' = [sincePoll EXCEPT ![v] =
                       sincePoll[v] + BackoffTicks(consecutive_failures[v])]
    /\ task' = [task EXCEPT ![v] = "done"]
    /\ UNCHANGED <<dex_clients, twins, stop_pc, monitoring, cancel_requested,
                   consecutive_failures, latest_prices, dex_order,
                   price_history, clock, failRun, arrivals>>

\* await asyncio.sleep(sleep_time) in the handler; while self.monitoring
BackoffDone(v) ==
    /\ task[v] = "backoff" /\ ~cancel_requested[v]
    /\ sincePoll' = [sincePoll EXCEPT ![v] =
                       sincePoll[v] + BackoffTicks(consecutive_failures[v])]
    /\ task' = [task EXCEPT ![v] = IF monitoring THEN "poll" ELSE "done"]
    /\ UNCHANGED <<dex_clients, twins, stop_pc, monitoring, cancel_requested,
                   consecutive_failures, latest_prices, dex_order,
                   price_history, clock, failRun, arrivals>>

\* stop(): monitoring = False; task.cancel() on every task not done; then
\* stop() waits in asyncio.gather(*self.update_tasks, return_exceptions=True)
MonitorStop ==
    /\ monitoring
    /\ monitoring' = FALSE
    /\ cancel_requested' = [v \in AllVenues |-> Live(v)]
    /\ stop_pc' = "waiting"
    /\ UNCHANGED <<dex_clients, twins, task, consecutive_failures, latest_prices,
                   dex_order, price_history, clock, sincePoll, failRun,
                   arrivals>>

\* CancelledError is thrown into the task at the await it is suspended on.
\* Inside the try block "except asyncio.CancelledError: break" ends the
\* loop; the backoff sleep is inside the "except Exception" handler, where
\* no clause catches it, so it leaves the coroutine and the task ends
\* cancelled.
Cancelled(v) ==
    /\ Live(v) /\ cancel_requested[v]
    /\ task' = [task EXCEPT ![v] = IF task[v] = "backoff" THEN "cancelled"
                                   ELSE "done"]
    /\ cancel_requested' = [cancel_requested EXCEPT ![v] = FALSE]
    /\ UNCHANGED <<dex_clients, twins, stop_pc, monitoring, consecutive_failures,
                   latest_prices, dex_order, price_history, clock, sincePoll,
                   failRun, arrivals>>

\* Mutant: stop() does not wait for its tasks.
GatherTasksDoneAtOnce == TRUE

\* asyncio.gather(*self.update_tasks, return_exceptions=True) is done when
\* every task is done, finished or cancelled
GatherTasksDone == \A v \in AllVenues : ~Live(v) /\ twins[v] = 0

\* stop() resumes after the gather and returns
MonitorStopReturns ==
    /\ stop_pc = "waiting"
    /\ GatherTasksDone
    /\ stop_pc' = "returned"
    /\ UNCHANGED <<dex_clients, twins, monitoring, task, cancel_requested,
                   consecutive_failures, latest_prices, dex_order,
                   price_history, clock, sincePoll, failRun, arrivals>>

(***************************************************************************)
(* Initial state: the objects as their constructors leave them             *)
(***************************************************************************)
SOL_USDC == PairKey("SOL", "USDC")
USDC_SOL == PairKey("USDC", "SOL")

\* Settings() with the trading parameters a deployment may set; the
\* profit threshold is held in thousandths of a percent (PctScale).
SettingsOf(thr, conc, bps) ==
    [min_profit_threshold |-> thr,
     max_concurrent_swaps |-> conc,
     max_slippage_bps     |-> bps,
     max_position_size    |-> 1,
     monitored_tokens     |-> <<"SOL", "USDC">>]

InitStore ==
    /\ latest_prices = <<>>
    /\ dex_order = <<>>
    /\ price_history = [hk \in HistoryKeys |-> <<>>]
    /\ arrivals = [hk \in HistoryKeys |-> <<>>]
    /\ clock = 0

InitTasks ==
    /\ monitoring = FALSE
    /\ task = [v \in AllVenues |-> "none"]
    /\ cancel_requested = [v \in AllVenues |-> FALSE]
    /\ twins = [v \in AllVenues |-> 0]
    /\ stop_pc = "idle"
    /\ consecutive_failures = [v \in AllVenues |-> 0]
    /\ sincePoll = [v \in AllVenues |-> 0]
    /\ failRun = [v \in AllVenues |-> 0]

InitScanIdle ==
    /\ settings = SettingsOf(500, 5, 50)
    /\ current_time = 0
    /\ price_data = [order |-> <<>>, map |-> <<>>]
    /\ opportunities = <<>>
    /\ scanned = FALSE

InitExecIdle ==
    /\ trading_enabled = TRUE
    /\ loop_pc = "idle"
    /\ cycles = 0
    /\ tasks = <<>>
    /\ results = <<>>
    /\ completed = 0
    /\ execution_stats = [total_attempts |-> 0, successful_swaps |-> 0,
                          failed_swaps |-> 0,
                          average_execution_time |-> Fraction(0, 1)]
    /\ succeeded = [runs |-> 0, elapsed |-> 0]
    /\ performance_stats = [total_trades |-> 0, successful_trades |-> 0]
    /\ rpc_open = TRUE
    /\ agent_stop_pc = "idle"

\* RateLimiter(requests_per_second=10): last_request = 0.0, the lock free;
\* time.time() is far from 0.0.  No caller has called acquire() yet.
InitRateIdle ==
    /\ rate_now = min_interval
    /\ limiter = [last_request |-> 0, locked |-> FALSE, waiters |-> <<>>]
    /\ caller = [c \in 1..MaxCallers |-> [pc |-> "idle", wake |-> 0]]
    /\ grants = <<>>

\* No reader has called get_latest_prices yet.
InitSnapIdle ==
    /\ snapshot = <<>>
    /\ shared = {}

Unbuilt == [status |-> "unbuilt", slippage_bps |-> 0, swap_instructions |-> <<>>]

InitOrderIdle ==
    /\ swap_request = [token_a |-> "SOL", token_b |-> "USDC",
                       swap_amount |-> 0, dex_path |-> <<>>]
    /\ swap_data = Unbuilt

(***************************************************************************)
(* SpecMonitor: two venue loops feeding the store                          *)
(***************************************************************************)
\* What a venue adapter may answer at time ts.
MonitorFeed(ts) ==
    { [k \in {SOL_USDC} |-> Entry(10050, ts)],
      [k \in {SOL_USDC, USDC_SOL} |->
          IF k = SOL_USDC THEN Entry(10120, ts) ELSE Entry(1, ts)] }

InitMonitor ==
    /\ dex_clients = <<"jupiter", "raydium">>
    /\ InitStore /\ InitTasks /\ InitScanIdle /\ InitExecIdle /\ InitOrderIdle /\ InitSnapIdle /\ InitRateIdle

NextMonitor ==
    \/ (MonitorStart /\ UNCHANGED <<scanVars, execVars, orderVars, snapVars, rateVars>>)
    \/ (MonitorStop /\ UNCHANGED <<scanVars, execVars, orderVars, snapVars, rateVars>>)
    \/ (/\ clock < MaxClock
        /\ \E v \in AllVenues : \E r \in MonitorFeed(clock + 1) :
              PollSuccess(v, r)
        /\ UNCHANGED <<scanVars, execVars, orderVars, snapVars, rateVars>>)
    \/ ((\E v \in AllVenues : PollEmpty(v)) /\ UNCHANGED <<scanVars, execVars, orderVars, snapVars, rateVars>>)
    \/ ((\E v \in AllVenues : PollRaise(v)) /\ UNCHANGED <<scanVars, execVars, orderVars, snapVars, rateVars>>)
    \/ ((\E v \in AllVenues : CooldownDone(v)) /\ UNCHANGED <<scanVars, execVars, orderVars, snapVars, rateVars>>)
    \/ ((\E v \in AllVenues : IntervalDone(v)) /\ UNCHANGED <<scanVars, execVars, orderVars, snapVars, rateVars>>)
    \/ ((\E v \in AllVenues : BackoffDone(v)) /\ UNCHANGED <<scanVars, execVars, orderVars, snapVars, rateVars>>)
    \/ ((\E v \in AllVenues : Cancelled(v)) /\ UNCHANGED <<scanVars, execVars, orderVars, snapVars, rateVars>>)
    \/ (MonitorStopReturns /\ UNCHANGED <<scanVars, execVars, orderVars, snapVars, rateVars>>)

SpecMonitor == InitMonitor /\ [][NextMonitor]_vars

(***************************************************************************)
(* Claims about the venue loops                                            *)
(***************************************************************************)
\* C3: when a venue's loop is about to issue a poll and its last
\* max_failures polls in a row have failed (by a raised error, by an empty
\* response, or any mix), at least the 30 s pause has been slept since the
\* last of them returned.
C3_PauseAfterMaxFailures ==
    \A v \in AllVenues :
        (task[v] = "poll" /\ failRun[v] >= max_failures)
            => sincePoll[v] >= PauseTicks

\* C3 witness: one venue has reached the threshold through the handler
\* (its counter still stands at max_failures), another through empty
\* responses (its counter was reset), and both are about to poll again.
C3_Witness ==
    \E v, w \in AllVenues :
        /\ task[v] = "poll" /\ failRun[v] = max_failures
        /\ consecutive_failures[v] = max_failures
        /\ task[w] = "poll" /\ failRun[w] = max_failures
        /\ consecutive_failures[w] = 0
        /\ sincePoll[v] >= PauseTicks /\ sincePoll[w] >= PauseTicks

\* C4: at the moment a poll is issued the venue's consecutive-failure
\* counter does not exceed the threshold (it was reset when it reached it).
C4_CounterWithinThresholdAtPoll ==
    \A v \in AllVenues :
        task[v] = "poll" => consecutive_failures[v] <= max_failures

\* What the store holds for venue w: its latest entries, if any, and its
\* history rings.
VenueData(w) ==
    [present |-> w \in DOMAIN latest_prices,
     latest  |-> IF w \in DOMAIN latest_prices THEN latest_prices[w] ELSE <<>>,
     rings   |-> [k \in PairKeys |-> price_history[<<w, k>>]]]

\* C18: a step in which venue v's poll succeeds (the clock advances and
\* v's task leaves its poll) changes the latest entries and the history
\* rings of no other venue.
C18_PollWritesOwnVenueOnly ==
    [][\A v \in AllVenues :
          (clock' # clock /\ task[v] = "poll" /\ task'[v] # "poll") =>
              \A w \in AllVenues \ {v} : VenueData(w)' = VenueData(w)]_vars

\* C18 witness: one venue was polled at time 1 and the other at time 2;
\* the first still holds its entries of time 1 and a ring of one element.
C18_Witness ==
    \E v, w \in AllVenues :
        /\ v # w /\ {v, w} \subseteq DOMAIN latest_prices
        /\ latest_prices[v][SOL_USDC].timestamp = 1
        /\ latest_prices[w][SOL_USDC].timestamp = 2
        /\ latest_prices[v] # latest_prices[w]
        /\ Len(price_history[<<v, SOL_USDC>>]) = 1
        /\ Len(price_history[<<w, SOL_USDC>>]) = 1

\* C24: a step in which a venue's poll succeeds leaves its counter at zero
\* and its task in the interval sleep, and a venue whose last poll
\* succeeded is polled again after exactly the poll interval.
C24_SuccessResetsAndWaitsInterval ==
    /\ [][\A v \in AllVenues :
            (clock' # clock /\ task[v] = "poll" /\ task'[v] # "poll") =>
                /\ consecutive_failures'[v] = 0
                /\ task'[v] = "interval"]_vars
    /\ [](\A v \in AllVenues :
            (task[v] = "poll" /\ failRun[v] = 0 /\ v \in DOMAIN latest_prices)
                => /\ sincePoll[v] = PriceUpdateIntervalTicks
                   /\ consecutive_failures[v] = 0)

\* C24 witness: a venue is about to be polled one interval after a
\* successful poll, while the other venue is counting failures.
C24_Witness ==
    \E v, w \in AllVenues :
        /\ task[v] = "poll" /\ failRun[v] = 0 /\ v \in DOMAIN latest_prices
        /\ sincePoll[v] = PriceUpdateIntervalTicks
        /\ consecutive_failures[w] >= 2

\* C25: a venue whose last poll failed, by an error or by an empty
\* response, is polled again after min(30 s, 2^n) with n its counter after
\* the failure.
C25_FailureBacksOff ==
    \A v \in AllVenues :
        (task[v] = "poll" /\ failRun[v] > 0 /\ consecutive_failures[v] > 0)
            => sincePoll[v] = BackoffTicks(consecutive_failures[v])

\* C32: a successful poll of venue v whose response does not contain pair
\* key k (nothing is appended to the ring of (v, k)) leaves the latest
\* entry stored for (v, k) present and unchanged.
C32_UpdateKeepsOtherKeys ==
    [][\A v \in DOMAIN latest_prices : \A k \in DOMAIN latest_prices[v] :
          (/\ clock' # clock /\ task[v] = "poll" /\ task'[v] # "poll"
           /\ arrivals'[<<v, k>>] = arrivals[<<v, k>>])
              => /\ k \in DOMAIN latest_prices'[v]
                 /\ latest_prices'[v][k] = latest_prices[v][k]]_vars

\* C39: a step in which a poll of venue v fails (it leaves its poll and no
\* quote is stamped) changes neither v's latest entries nor v's history
\* rings, and no step taken while v is in its backoff or in its cooldown
\* changes them: they stay what v's last successful poll stored.
C39_FailedPollKeepsStore ==
    [][\A v \in AllVenues :
          (\/ (task[v] = "poll" /\ task'[v] # "poll" /\ clock' = clock)
           \/ task[v] \in {"backoff", "cooldown"})
              => VenueData(v)' = VenueData(v)]_vars

\* A venue that stored a quote and then failed max_failures times in a
\* row is in its cooldown and still holds that quote, while
\* the other venue has been polled since.
C39_Witness ==
    \E v, w \in AllVenues :
        /\ v # w /\ task[v] = "cooldown" /\ failRun[v] >= max_failures
        /\ v \in DOMAIN latest_prices /\ SOL_USDC \in DOMAIN latest_prices[v]
        /\ Len(price_history[<<v, SOL_USDC>>]) = 1
        /\ w \in DOMAIN latest_prices
        /\ latest_prices[w][SOL_USDC].timestamp
              > latest_prices[v][SOL_USDC].timestamp

(***************************************************************************)
(* SpecStop: the venue loops under the event loop's scheduling, with one   *)
(* venue whose polls may fail and one whose polls succeed, and stop()      *)
(***************************************************************************)
FlakyVenues == {"jupiter"}

StopFeed(ts) == [k \in {SOL_USDC} |-> Entry(10050, ts)]

NextStop ==
    \/ (MonitorStart /\ UNCHANGED <<scanVars, execVars, orderVars, snapVars, rateVars>>)
    \/ (MonitorStop /\ UNCHANGED <<scanVars, execVars, orderVars, snapVars, rateVars>>)
    \/ (/\ clock < MaxStopPolls
        /\ \E v \in AllVenues : PollSuccess(v, StopFeed(clock + 1))
        /\ UNCHANGED <<scanVars, execVars, orderVars, snapVars, rateVars>>)
    \/ ((\E v \in FlakyVenues : PollEmpty(v)) /\ UNCHANGED <<scanVars, execVars, orderVars, snapVars, rateVars>>)
    \/ ((\E v \in FlakyVenues : PollRaise(v)) /\ UNCHANGED <<scanVars, execVars, orderVars, snapVars, rateVars>>)
    \/ ((\E v \in AllVenues : CooldownDone(v)) /\ UNCHANGED <<scanVars, execVars, orderVars, snapVars, rateVars>>)
    \/ ((\E v \in AllVenues : IntervalDone(v)) /\ UNCHANGED <<scanVars, execVars, orderVars, snapVars, rateVars>>)
    \/ ((\E v \in AllVenues : BackoffDone(v)) /\ UNCHANGED <<scanVars, execVars, orderVars, snapVars, rateVars>>)
    \/ ((\E v \in AllVenues : Cancelled(v)) /\ UNCHANGED <<scanVars, execVars, orderVars, snapVars, rateVars>>)
    \/ (MonitorStopReturns /\ UNCHANGED <<scanVars, execVars, orderVars, snapVars, rateVars>>)

\* The event loop runs every task that is ready: a sleep that has run out
\* resumes, a cancellation is delivered, a finished gather resumes its
\* caller.  What a venue answers to a poll is not the program's to decide.
FairMonitor ==
    /\ \A v \in AllVenues :
          /\ WF_vars(Cancelled(v) /\ UNCHANGED <<scanVars, execVars, orderVars, snapVars, rateVars>>)
          /\ WF_vars(IntervalDone(v) /\ UNCHANGED <<scanVars, execVars, orderVars, snapVars, rateVars>>)
          /\ WF_vars(CooldownDone(v) /\ UNCHANGED <<scanVars, execVars, orderVars, snapVars, rateVars>>)
          /\ WF_vars(BackoffDone(v) /\ UNCHANGED <<scanVars, execVars, orderVars, snapVars, rateVars>>)
    /\ WF_vars(MonitorStopReturns /\ UNCHANGED <<scanVars, execVars, orderVars, snapVars, rateVars>>)

SpecStop == InitMonitor /\ [][NextStop]_vars /\ FairMonitor

\* C11: once stop() has cancelled the tasks, every venue task terminates,
\* from whichever await it was suspended on, and stop() returns only when
\* all of them have terminated.
C11_StopTerminatesTasks ==
    /\ [](stop_pc = "returned" => \A v \in AllVenues : ~Live(v))
    /\ \A v \in AllVenues : (stop_pc = "waiting") ~> ~Live(v)
    /\ (stop_pc = "waiting") ~> (stop_pc = "returned")

\* C11 witness: stop() has returned; one venue task ended cancelled out of
\* its backoff sleep, the other ended through the CancelledError clause.
C11_Witness ==
    /\ stop_pc = "returned"
    /\ \E v, w \in AllVenues : task[v] = "cancelled" /\ task[w] = "done"

\* C15: a failed poll of a venue (an error raised, an empty response)
\* leaves that venue's task alive and every other venue's task and counter
\* as they were, and unless the monitor is stopped the venue is polled
\* again.
C15_FailedPollKeepsLoops ==
    /\ [][\A v \in AllVenues :
            consecutive_failures'[v] > consecutive_failures[v] =>
               /\ task'[v] \in {"interval", "cooldown", "backoff"}
               /\ \A w \in AllVenues \ {v} :
                     /\ task'[w] = task[w]
                     /\ consecutive_failures'[w] = consecutive_failures[w]]_vars
    /\ \A v \in AllVenues :
          (task[v] \in {"interval", "cooldown", "backoff"} /\ failRun[v] > 0)
              ~> (task[v] = "poll" \/ ~monitoring)

\* C15 witness: the monitor is running, a venue whose last two polls failed
\* is about to be polled again, and the other venue's loop is alive with
\* no failure counted.
C15_Witness ==
    /\ monitoring
    /\ \E v, w \in AllVenues :
          /\ task[v] = "poll" /\ failRun[v] >= 2
          /\ consecutive_failures[v] >= 2
          /\ Live(w) /\ consecutive_failures[w] = 0 /\ failRun[w] = 0

(***************************************************************************)
(* SpecSnap: a reader takes snapshots of the store with get_latest_prices  *)
(* and writes to what it got, while the venue loops go on polling.         *)
(***************************************************************************)
\* return dict(self.latest_prices): a new outer dict whose values are the
\* price dicts the store holds, not copies of them.
ReadSnapshot ==
    /\ snapshot' = GetLatestPrices.map
    /\ shared' = DOMAIN latest_prices
    /\ UNCHANGED <<monitorVars, scanVars, execVars, orderVars, rateVars>>

\* The reader assigns snapshot[v][k]["price"] = p.  The entry belongs to
\* the price dict of v; if the store still holds that dict the store shows
\* the new price too.
ReaderWritesEntry(v, k, p) ==
    /\ v \in DOMAIN snapshot /\ k \in DOMAIN snapshot[v]
    /\ snapshot[v][k].price # p
    /\ snapshot' = [snapshot EXCEPT ![v][k].price = p]
    /\ latest_prices' = IF v \in shared
                        THEN [latest_prices EXCEPT ![v][k].price = p]
                        ELSE latest_prices
    /\ UNCHANGED <<dex_clients, twins, monitoring, task, cancel_requested, stop_pc,
                   consecutive_failures, dex_order, price_history, clock,
                   sincePoll, failRun, arrivals, shared,
                   scanVars, execVars, orderVars, rateVars>>

\* The reader assigns snapshot[v] = {}: a key of the outer dict, which is
\* the reader's own.
ReaderReplacesVenue(v) ==
    /\ v \in DOMAIN snapshot /\ snapshot[v] # <<>>
    /\ snapshot' = [snapshot EXCEPT ![v] = <<>>]
    /\ shared' = shared \ {v}
    /\ UNCHANGED <<monitorVars, scanVars, execVars, orderVars, rateVars>>

\* self.latest_prices[dex_name] = prices puts the dict get_all_prices has
\* just built in the store; a snapshot taken before keeps the old one.
SnapPollSuccess(v, prices) ==
    /\ PollSuccess(v, prices)
    /\ shared' = shared \ {v}
    /\ UNCHANGED <<snapshot, scanVars, execVars, orderVars, rateVars>>

ReaderPrices == {1}

NextSnap ==
    \/ (MonitorStart /\ UNCHANGED <<scanVars, execVars, orderVars, snapVars, rateVars>>)
    \/ (/\ clock < MaxSnapPolls
        /\ \E v \in AllVenues : \E r \in MonitorFeed(clock + 1) :
              SnapPollSuccess(v, r))
    \/ ((\E v \in AllVenues : IntervalDone(v))
            /\ UNCHANGED <<scanVars, execVars, orderVars, snapVars, rateVars>>)
    \/ ReadSnapshot
    \/ (\E v \in AllVenues, k \in PairKeys, p \in ReaderPrices :
            ReaderWritesEntry(v, k, p))
    \/ (\E v \in AllVenues : ReaderReplacesVenue(v))

SpecSnap == InitMonitor /\ [][NextSnap]_vars

\* C17: a snapshot and the store share nothing: no step changes both, so a
\* poll leaves every snapshot as it was read and a reader's write to its
\* snapshot leaves the store as it is.
C17_SnapshotDetached ==
    [][snapshot' = snapshot \/ latest_prices' = latest_prices]_vars

\* C35: in every state another task can observe, each latest entry of a
\* venue is the quote that was appended last to the history ring of its
\* key: the ring's most recent element carries its price (as a float) and
\* its timestamp.
C35_LatestMatchesRing ==
    \A v \in DOMAIN latest_prices : \A k \in DOMAIN latest_prices[v] :
        LET ring == price_history[<<v, k>>]
        IN  /\ ring # <<>>
            /\ ring[Len(ring)] = Entry(FloatOf(latest_prices[v][k].price),
                                       latest_prices[v][k].timestamp)

(***************************************************************************)
(* SpecRestart: start() and stop() called in any order, start() also when  *)
(* the monitor is already running                                          *)
(***************************************************************************)
\* start() called after an earlier start(): monitoring = True and one new
\* task per dex client are created whatever tasks exist.  A venue whose
\* task has ended gets the new task in its place; a venue whose task is
\* live now has two.  (Calls made while a stop() is waiting are left out.)
MonitorStartAgain ==
    /\ \E v \in AllVenues : task[v] # "none"
    /\ stop_pc # "waiting"
    /\ \A v \in Range(dex_clients) : Live(v) => twins[v] < MaxTwins
    /\ monitoring' = TRUE
    /\ task' = [v \in AllVenues |->
                  IF v \in Range(dex_clients) /\ ~Live(v) THEN "poll"
                  ELSE task[v]]
    /\ twins' = [v \in AllVenues |->
                  IF v \in Range(dex_clients) /\ Live(v) THEN twins[v] + 1
                  ELSE twins[v]]
    /\ consecutive_failures' =
          [v \in AllVenues |->
              IF v \in Range(dex_clients) /\ ~Live(v) THEN 0
              ELSE consecutive_failures[v]]
    /\ sincePoll' = [v \in AllVenues |->
                       IF v \in Range(dex_clients) /\ ~Live(v) THEN 0
                       ELSE sincePoll[v]]
    /\ failRun' = [v \in AllVenues |->
                     IF v \in Range(dex_clients) /\ ~Live(v) THEN 0
                     ELSE failRun[v]]
    /\ UNCHANGED <<dex_clients, stop_pc, cancel_requested, latest_prices,
                   dex_order, price_history, clock, arrivals>>

\* A further task of venue v gets a non-empty answer and writes it to the
\* store as the venue's first task does.
TwinPollSuccess(v, prices) ==
    /\ twins[v] > 0 /\ monitoring /\ stop_pc # "waiting"
    /\ latest_prices' = SetLatest(latest_prices, v, prices)
    /\ dex_order' = SetOrder(dex_order, v)
    /\ price_history' = HistoryUpdate(price_history, v, prices)
    /\ arrivals' = [hk \in HistoryKeys |->
                      IF hk[1] = v /\ hk[2] \in DOMAIN prices
                      THEN Append(arrivals[hk],
                                  Entry(FloatOf(prices[hk[2]].price),
                                        prices[hk[2]].timestamp))
                      ELSE arrivals[hk]]
    /\ clock' = clock + 1
    /\ UNCHANGED <<dex_clients, twins, monitoring, task, cancel_requested,
                   stop_pc, consecutive_failures, sincePoll, failRun>>

\* stop() has cancelled every task of update_tasks: a further task of
\* venue v ends at the await it is suspended on.
TwinCancelled(v) ==
    /\ twins[v] > 0 /\ stop_pc = "waiting"
    /\ twins' = [twins EXCEPT ![v] = twins[v] - 1]
    /\ UNCHANGED <<dex_clients, monitoring, task, cancel_requested, stop_pc,
                   consecutive_failures, latest_prices, dex_order,
                   price_history, clock, sincePoll, failRun, arrivals>>

NextRestart ==
    \/ (MonitorStart /\ UNCHANGED <<scanVars, execVars, orderVars, snapVars, rateVars>>)
    \/ (MonitorStartAgain /\ UNCHANGED <<scanVars, execVars, orderVars, snapVars, rateVars>>)
    \/ (MonitorStop /\ UNCHANGED <<scanVars, execVars, orderVars, snapVars, rateVars>>)
    \/ (/\ clock < MaxRestartPolls
        /\ \E v \in AllVenues : \E r \in MonitorFeed(clock + 1) :
              PollSuccess(v, r)
        /\ UNCHANGED <<scanVars, execVars, orderVars, snapVars, rateVars>>)
    \/ (/\ clock < MaxRestartPolls
        /\ \E v \in AllVenues : \E r \in MonitorFeed(clock + 1) :
              TwinPollSuccess(v, r)
        /\ UNCHANGED <<scanVars, execVars, orderVars, snapVars, rateVars>>)
    \/ ((\E v \in AllVenues : IntervalDone(v)) /\ UNCHANGED <<scanVars, execVars, orderVars, snapVars, rateVars>>)
    \/ ((\E v \in AllVenues : Cancelled(v)) /\ UNCHANGED <<scanVars, execVars, orderVars, snapVars, rateVars>>)
    \/ ((\E v \in AllVenues : TwinCancelled(v)) /\ UNCHANGED <<scanVars, execVars, orderVars, snapVars, rateVars>>)
    \/ (MonitorStopReturns /\ UNCHANGED <<scanVars, execVars, orderVars, snapVars, rateVars>>)

SpecRestart == InitMonitor /\ [][NextRestart]_vars

\* C36: whatever start() and stop() calls were made, every venue has at
\* most one polling task that has not ended.
C36_OneTaskPerVenue ==
    \A v \in AllVenues : (IF Live(v) THEN 1 ELSE 0) + twins[v] <= 1

(***************************************************************************)
(* SpecRate: one RateLimiter and the callers of its acquire()              *)
(***************************************************************************)
\* Mutant: the body never sleeps and grants at once.
EnterLockNoSleep(c, ws) ==
    /\ limiter' = [last_request |-> rate_now, locked |-> FALSE, waiters |-> ws]
    /\ caller' = [caller EXCEPT ![c] = [pc |-> "idle", wake |-> 0]]
    /\ grants' = Append(grants, rate_now)

\* The body of "async with self._lock", entered by caller c with the lock,
\* ws being the callers still queued.  If the last grant is less than
\* min_interval ago the caller sleeps for the rest of it, holding the lock;
\* if not, last_request = time.time() and the lock is released, with no
\* await on the way.
EnterLock(c, ws) ==
    LET time_since_last == rate_now - limiter.last_request
    IN  IF time_since_last < min_interval
        THEN /\ limiter' = [limiter EXCEPT !.locked = TRUE, !.waiters = ws]
             /\ caller' = [caller EXCEPT ![c] =
                    [pc |-> "sleeping",
                     wake |-> rate_now + (min_interval - time_since_last)]]
             /\ grants' = grants
        ELSE /\ limiter' = [last_request |-> rate_now, locked |-> FALSE,
                            waiters |-> ws]
             /\ caller' = [caller EXCEPT ![c] = [pc |-> "idle", wake |-> 0]]
             /\ grants' = Append(grants, rate_now)

\* Caller c calls acquire().  asyncio.Lock gives the lock at once if it is
\* free and nobody is queued; otherwise the caller queues.
Acquire(c) ==
    /\ caller[c].pc = "idle" /\ rate_now < MaxRateClock
    /\ IF ~limiter.locked /\ limiter.waiters = <<>>
       THEN EnterLock(c, <<>>)
       ELSE /\ limiter' = [limiter EXCEPT !.waiters = Append(@, c)]
            /\ caller' = [caller EXCEPT ![c].pc = "waiting"]
            /\ grants' = grants
    /\ UNCHANGED rate_now

\* The lock was released: the caller queued first is resumed with it.
LockResume(c) ==
    /\ caller[c].pc = "waiting" /\ ~limiter.locked
    /\ limiter.waiters # <<>> /\ Head(limiter.waiters) = c
    /\ EnterLock(c, Tail(limiter.waiters))
    /\ UNCHANGED rate_now

\* asyncio.sleep(sleep_time) ends, not before its time:
\* self.last_request = time.time(), and the lock is released.
SleepDone(c) ==
    /\ caller[c].pc = "sleeping" /\ rate_now >= caller[c].wake
    /\ limiter' = [limiter EXCEPT !.last_request = rate_now, !.locked = FALSE]
    /\ caller' = [caller EXCEPT ![c] = [pc |-> "idle", wake |-> 0]]
    /\ grants' = Append(grants, rate_now)
    /\ UNCHANGED rate_now

\* Time passes while the event loop has no caller to resume with the lock;
\* a sleep may end up to MaxLateTicks late.
RateTick ==
    /\ limiter.locked \/ limiter.waiters = <<>>
    /\ \A c \in 1..MaxCallers :
          caller[c].pc = "sleeping" => rate_now < caller[c].wake + MaxLateTicks
    /\ (\E c \in 1..MaxCallers : caller[c].pc = "sleeping")
          \/ rate_now < MaxRateClock
    /\ rate_now' = rate_now + 1
    /\ UNCHANGED <<limiter, caller, grants>>

NextRate ==
    \/ ((\E c \in 1..MaxCallers : Acquire(c))
            /\ UNCHANGED <<monitorVars, scanVars, execVars, orderVars, snapVars>>)
    \/ ((\E c \in 1..MaxCallers : LockResume(c))
            /\ UNCHANGED <<monitorVars, scanVars, execVars, orderVars, snapVars>>)
    \/ ((\E c \in 1..MaxCallers : SleepDone(c))
            /\ UNCHANGED <<monitorVars, scanVars, execVars, orderVars, snapVars>>)
    \/ (RateTick
            /\ UNCHANGED <<monitorVars, scanVars, execVars, orderVars, snapVars>>)

\* The event loop resumes the caller the lock was handed to and the caller
\* whose sleep is over, and time goes on.
SpecRate ==
    /\ InitMonitor /\ [][NextRate]_vars
    /\ WF_vars((\E c \in 1..MaxCallers : LockResume(c))
                  /\ UNCHANGED <<monitorVars, scanVars, execVars, orderVars, snapVars>>)
    /\ WF_vars((\E c \in 1..MaxCallers : SleepDone(c))
                  /\ UNCHANGED <<monitorVars, scanVars, execVars, orderVars, snapVars>>)
    /\ WF_vars(RateTick
                  /\ UNCHANGED <<monitorVars, scanVars, execVars, orderVars, snapVars>>)

\* C34: any two consecutive grants of the limiter are at least
\* min_interval apart, whatever the number of callers inside acquire(),
\* and every caller inside acquire() is granted in the end.
C34_GrantsSpacedAndEventual ==
    /\ [](\A i \in 1..(Len(grants) - 1) :
             grants[i + 1] - grants[i] >= min_interval)
    /\ [](Len(grants) > 0 => limiter.last_request = grants[Len(grants)])
    /\ \A c \in 1..MaxCallers :
          (caller[c].pc # "idle") ~> (caller[c].pc = "idle")

\* Three grants were made, the third min_interval after the second and
\* the second after a sleep that ended late, and two more callers are
\* inside acquire(): one asleep with the lock, one queued behind it.
C34_Witness ==
    /\ Len(grants) >= 3
    /\ grants[2] - grants[1] = min_interval + MaxLateTicks
    /\ grants[3] - grants[2] = min_interval
    /\ \E a, b \in 1..MaxCallers :
          /\ caller[a].pc = "sleeping" /\ caller[b].pc = "waiting"
          /\ limiter.locked /\ limiter.waiters = <<b>>

(***************************************************************************)
(* SpecRing: one venue polled successfully more often than a history ring  *)
(* holds entries                                                           *)
(***************************************************************************)
\* The venue's answer at time ts: both pair keys, the price alternating.
RingFeed(ts) ==
    { [k \in {SOL_USDC, USDC_SOL} |->
          IF k = SOL_USDC THEN Entry(10050 + 70 * (ts % 2), ts)
          ELSE Entry(1, ts)] }

InitRing ==
    /\ dex_clients \in {<<"jupiter">>, <<"raydium">>}
    /\ InitStore /\ InitTasks /\ InitScanIdle /\ InitExecIdle /\ InitOrderIdle /\ InitSnapIdle /\ InitRateIdle

NextRing ==
    \/ (MonitorStart /\ UNCHANGED <<scanVars, execVars, orderVars, snapVars, rateVars>>)
    \/ (/\ clock < RingPolls
        /\ \E v \in AllVenues : \E r \in RingFeed(clock + 1) :
              PollSuccess(v, r)
        /\ UNCHANGED <<scanVars, execVars, orderVars, snapVars, rateVars>>)
    \/ ((\E v \in AllVenues : IntervalDone(v)) /\ UNCHANGED <<scanVars, execVars, orderVars, snapVars, rateVars>>)

SpecRing == InitRing /\ [][NextRing]_vars

\* The last n elements of a sequence, in order.
LastN(q, n) == SubSeq(q, Len(q) - n + 1, Len(q))

\* C9: every history ring holds at most HistoryMaxLen entries, and holds
\* exactly the most recent min(HistoryMaxLen, appended) entries appended to
\* it, in arrival order (so a full ring dropped its oldest entry).
C9_RingBoundedFifo ==
    \A hk \in HistoryKeys :
        /\ Len(price_history[hk]) <= HistoryMaxLen
        /\ Len(price_history[hk]) = Min(HistoryMaxLen, Len(arrivals[hk]))
        /\ price_history[hk] = LastN(arrivals[hk], Len(price_history[hk]))

\* C9 witness: a full ring that has dropped entries: more were appended
\* than it holds, and its oldest entry is not the first one appended.
C9_Witness ==
    \E hk \in HistoryKeys :
        /\ Len(price_history[hk]) = HistoryMaxLen
        /\ Len(arrivals[hk]) >= HistoryMaxLen + 2
        /\ price_history[hk][1] # arrivals[hk][1]
        /\ price_history[hk][HistoryMaxLen] = arrivals[hk][Len(arrivals[hk])]

\* get_price_history: list(self.price_history.get(history_key, [])), then
\* "history[-limit:] if history else []".  A slice that starts at -limit
\* starts limit places before the end, at the first place if the list is
\* shorter, and, -0 being 0, at the first place for limit 0.
GetPriceHistory(ph, hk, limit) ==
    LET history == IF hk \in DOMAIN ph THEN ph[hk] ELSE <<>>
        start == IF limit = 0 THEN 0 ELSE Max(Len(history) - limit, 0)
    IN  IF history # <<>>
        THEN SubSeq(history, start + 1, Len(history))
        ELSE <<>>

\* C31: for every limit >= 0 and every ring content get_price_history
\* returns exactly the min(limit, ring length) most recent entries of the
\* key's ring, oldest first, and nothing for a key that has no ring.
C31_HistoryReturnsLastLimit ==
    /\ \A hk \in HistoryKeys : \A limit \in {0, 1, 50, HistoryMaxLen, 150} :
          GetPriceHistory(price_history, hk, limit)
             = LastN(price_history[hk], Min(limit, Len(price_history[hk])))
    /\ \A limit \in {0, 1, 50} :
          GetPriceHistory(price_history, <<"orca", SOL_USDC>>, limit) = <<>>

(***************************************************************************)
(* SolanaSwapAgent.find_arbitrage_opportunities                            *)
(***************************************************************************)

NoBest == [buy_price |-> NoPrice, buy_dex |-> None,
           sell_price |-> NoPrice, sell_dex |-> None]

\* Mutant: the buy price is the first price seen and is never replaced.
IsBetterBuyFirstOnly(price, best) == best = NoPrice

\* Mutant: "price <= best_buy_price", which lets a later venue take a tie.
IsBetterBuyOrEqual(price, best) == best = NoPrice \/ price <= best

\* "price < best_buy_price": the strict comparison keeps the first venue
IsBetterBuy(price, best) == best = NoPrice \/ price < best
IsBetterSell(price, best) == best = NoPrice \/ price > best

\* One turn of "for dex_name, dex_prices in price_data.items()": only the
\* direct key f"{token_a}-{token_b}" is looked up.
BestStep(best, dex_name, dex_prices, a, b) ==
    IF PairKey(a, b) \in DOMAIN dex_prices
    THEN LET price == dex_prices[PairKey(a, b)].price
             afterBuy ==
                 IF IsBetterBuy(price, best.buy_price)
                 THEN [best EXCEPT !.buy_price = price, !.buy_dex = dex_name]
                 ELSE best
         IN  IF IsBetterSell(price, afterBuy.sell_price)
             THEN [afterBuy EXCEPT !.sell_price = price, !.sell_dex = dex_name]
             ELSE afterBuy
    ELSE best

\* The venue loop over the first n venues of the snapshot.
RECURSIVE BestUpTo(_, _, _, _)
BestUpTo(pd, a, b, n) ==
    IF n = 0 THEN NoBest
    ELSE BestStep(BestUpTo(pd, a, b, n - 1),
                  pd.order[n], pd.map[pd.order[n]], a, b)

BestPrices(pd, a, b) == BestUpTo(pd, a, b, Len(pd.order))

\* Python truthiness of a price: None and zero are false.
Truthy(x) == x # NoPrice /\ x # 0

\* Mutant: the spread taken relative to the sell price.
ProfitPercentageOfSell(buy, sell) == ((sell - buy) * 100 * PctScale) \div sell

\* float((best_sell_price - best_buy_price) / best_buy_price * 100)
ProfitPercentage(buy, sell) == ((sell - buy) * 100 * PctScale) \div buy

\* Mutant: no threshold check.
MeetsThresholdAlways(pp, thr) == TRUE

\* "if profit_percentage >= settings.min_profit_threshold"
MeetsThreshold(pp, thr) == pp >= thr

\* utils.calculate_profit: max((sell - buy) * position_size, 0)
calculate_profit(buy, sell, position_size) ==
    Max((sell - buy) * position_size, 0)

Candidate(best) ==
    /\ Truthy(best.buy_price) /\ Truthy(best.sell_price)
    /\ best.buy_dex # best.sell_dex
    /\ best.sell_price > best.buy_price

Opportunity(a, b, best, st, now) ==
    [token_a |-> a, token_b |-> b,
     buy_dex |-> best.buy_dex, sell_dex |-> best.sell_dex,
     buy_price |-> best.buy_price, sell_price |-> best.sell_price,
     profit_percentage |-> ProfitPercentage(best.buy_price, best.sell_price),
     estimated_profit |-> calculate_profit(best.buy_price, best.sell_price,
                                           st.max_position_size),
     swap_path |-> <<best.buy_dex, best.sell_dex>>,
     timestamp |-> now]

\* The body of the two token loops for one ordered pair: the opportunities
\* it appends (none or one).
PairOpportunities(pd, a, b, st, now) ==
    LET best == BestPrices(pd, a, b)
    IN  IF a # b /\ Candidate(best)
           /\ MeetsThreshold(ProfitPercentage(best.buy_price, best.sell_price),
                             st.min_profit_threshold)
        THEN <<Opportunity(a, b, best, st, now)>>
        ELSE <<>>

\* "for token_a in monitored_tokens: for token_b in monitored_tokens": the
\* first n of the Len * Len turns, in order.
RECURSIVE FoundUpTo(_, _, _, _)
FoundUpTo(pd, st, now, n) ==
    IF n = 0 THEN <<>>
    ELSE LET toks == st.monitored_tokens
             i == ((n - 1) \div Len(toks)) + 1
             j == ((n - 1) % Len(toks)) + 1
         IN  FoundUpTo(pd, st, now, n - 1)
                 \o PairOpportunities(pd, toks[i], toks[j], st, now)

\* list.sort(key=profit_percentage, reverse=True) is stable: x goes behind
\* every element whose profit is at least its own.
RECURSIVE InsertDesc(_, _)
InsertDesc(sorted, x) ==
    IF sorted = <<>> THEN <<x>>
    ELSE IF Head(sorted).profit_percentage >= x.profit_percentage
         THEN <<Head(sorted)>> \o InsertDesc(Tail(sorted), x)
         ELSE <<x>> \o sorted

RECURSIVE SortDesc(_, _)
SortDesc(list, n) ==
    IF n = 0 THEN <<>> ELSE InsertDesc(SortDesc(list, n - 1), list[n])

\* Mutant: the slice keeps the tail of the list, opportunities[-n:].
TruncateTail(list, n) ==
    SubSeq(list, Len(list) - Min(Len(list), n) + 1, Len(list))

\* opportunities[:settings.max_concurrent_swaps]
Truncate(list, n) == SubSeq(list, 1, Min(Len(list), n))

FindArbitrageOpportunities(pd, st, now) ==
    IF pd.order = <<>> THEN <<>>
    ELSE LET found == FoundUpTo(pd, st, now,
                                Len(st.monitored_tokens) * Len(st.monitored_tokens))
         IN  Truncate(SortDesc(found, Len(found)), st.max_concurrent_swaps)

\* One call of find_arbitrage_opportunities().
Scan ==
    /\ ~scanned
    /\ scanned' = TRUE
    /\ current_time' = clock
    /\ price_data' = GetLatestPrices
    /\ opportunities' = FindArbitrageOpportunities(GetLatestPrices, settings, clock)
    /\ UNCHANGED settings

(***************************************************************************)
(* SpecScan: one scan of a store the venue loops have filled               *)
(***************************************************************************)
\* The staleness bound of the specification's data model; the code has no
\* such setting.
StalenessBound == 50

ScanNow == StalenessBound + 1

ScanOrders == {<<>>, <<"jupiter">>, <<"jupiter", "raydium">>,
               <<"jupiter", "raydium", "meteora">>}

DirectPrices == {10050, 10080, 10120}
ReversePrices == {0, 1, 2}

\* The non-empty price dicts a venue may have stored, all of one poll.
VenueDicts ==
    LET withKeys(ks, d, r, ts) ==
            [k \in ks |-> IF k = SOL_USDC THEN Entry(d, ts) ELSE Entry(r, ts)]
    IN  UNION { { withKeys({SOL_USDC}, d, 0, ts) : d \in DirectPrices }
                \cup { withKeys({USDC_SOL}, 0, r, ts) : r \in ReversePrices }
                \cup { withKeys({SOL_USDC, USDC_SOL}, d, r, ts) :
                          d \in DirectPrices, r \in ReversePrices }
              : ts \in {0, ScanNow} }

\* max_position_size is a float field with no validator: the default and a
\* value below zero, which Settings() accepts as it is.
PositionCaps == {1, 0 - 1}

ScanSettings ==
    { [SettingsOf(thr, conc, 50) EXCEPT !.max_position_size = cap] :
          thr \in {500, 1000}, conc \in {1, 5}, cap \in PositionCaps }

InitScan ==
    /\ dex_clients = <<"jupiter", "raydium", "meteora">>
    /\ monitoring = TRUE
    /\ task = [v \in AllVenues |-> "interval"]
    /\ cancel_requested = [v \in AllVenues |-> FALSE]
    /\ twins = [v \in AllVenues |-> 0]
    /\ stop_pc = "idle"
    /\ consecutive_failures = [v \in AllVenues |-> 0]
    /\ sincePoll = [v \in AllVenues |-> 0]
    /\ failRun = [v \in AllVenues |-> 0]
    /\ dex_order \in ScanOrders
    /\ latest_prices \in [Range(dex_order) -> VenueDicts]
    /\ price_history =
          [hk \in HistoryKeys |->
              IF hk[1] \in Range(dex_order) /\ hk[2] \in DOMAIN latest_prices[hk[1]]
              THEN <<Entry(FloatOf(latest_prices[hk[1]][hk[2]].price),
                           latest_prices[hk[1]][hk[2]].timestamp)>>
              ELSE <<>>]
    /\ arrivals = price_history
    /\ clock = ScanNow
    /\ settings \in ScanSettings
    /\ current_time = 0
    /\ price_data = [order |-> <<>>, map |-> <<>>]
    /\ opportunities = <<>>
    /\ scanned = FALSE
    /\ InitExecIdle
    /\ InitOrderIdle /\ InitSnapIdle /\ InitRateIdle

NextScan == Scan /\ UNCHANGED <<monitorVars, execVars, orderVars, snapVars, rateVars>>

SpecScan == InitScan /\ [][NextScan]_vars

OppSet == Range(opportunities)

\* C5: every opportunity a scan returns has different buy and sell venues,
\* a sell price above its buy price, and (sell - buy) / buy * 100 at least
\* the configured minimum profit threshold.
C5_OpportunitiesQualify ==
    \A o \in OppSet :
        /\ o.buy_dex # o.sell_dex
        /\ o.sell_price > o.buy_price
        /\ (o.sell_price - o.buy_price) * 100 * PctScale
               >= settings.min_profit_threshold * o.buy_price

\* C5 witness: a scan returned an opportunity for one pair and none for
\* the other pair, whose best prices differ by less than the threshold.
C5_Witness ==
    /\ scanned /\ Len(opportunities) = 1
    /\ opportunities[1].token_a = "USDC"
    /\ LET best == BestPrices(price_data, "SOL", "USDC")
       IN  /\ Truthy(best.buy_price)
           /\ best.sell_price > best.buy_price
           /\ best.buy_dex # best.sell_dex

\* C6: a venue that holds only the key B-A, at price p > 0, takes part in
\* the scan of (A, B) with the price 1/p: the scan's best buy price is at
\* most 1/p and its best sell price at least 1/p.
C6_ReciprocalQuoteTakesPart ==
    scanned =>
        \A a \in Tokens, b \in Tokens : \A v \in Range(price_data.order) :
            (/\ a # b
             /\ PairKey(a, b) \notin DOMAIN price_data.map[v]
             /\ PairKey(b, a) \in DOMAIN price_data.map[v]
             /\ price_data.map[v][PairKey(b, a)].price > 0)
            => LET best == BestPrices(price_data, a, b)
                   p == price_data.map[v][PairKey(b, a)].price
               IN  /\ best.buy_price # NoPrice
                   /\ best.buy_price * p <= PriceUnit * PriceUnit
                   /\ best.sell_price * p >= PriceUnit * PriceUnit

\* Every qualifying candidate of the scanned snapshot, in scan order.
Qualifying ==
    FoundUpTo(price_data, settings, current_time,
              Len(settings.monitored_tokens) * Len(settings.monitored_tokens))

\* C22: the scan's result holds min(number of qualifying candidates,
\* max_concurrent_swaps) of the qualifying candidates, in descending order
\* of profit percentage, and no candidate left out has a strictly higher
\* profit percentage than one that is returned.
C22_SortedTopCandidates ==
    scanned =>
        /\ Len(opportunities)
              = Min(Len(Qualifying), settings.max_concurrent_swaps)
        /\ OppSet \subseteq Range(Qualifying)
        /\ \A i, j \in 1..Len(opportunities) :
              i < j => opportunities[i].profit_percentage
                          >= opportunities[j].profit_percentage
        /\ \A c \in Range(Qualifying) \ OppSet : \A o \in OppSet :
              c.profit_percentage <= o.profit_percentage

\* C22 witness: two candidates qualify, the one scanned second being the
\* more profitable; with max_concurrent_swaps = 1 it alone is returned.
C22_Witness ==
    /\ scanned /\ settings.max_concurrent_swaps = 1
    /\ Len(Qualifying) = 2 /\ Len(opportunities) = 1
    /\ Qualifying[1].profit_percentage < Qualifying[2].profit_percentage
    /\ opportunities[1] = Qualifying[2]

\* Venue number i of the scanned snapshot quotes the pair of o at price p.
QuotesAt(i, o, p) ==
    LET d == price_data.map[price_data.order[i]]
        k == PairKey(o.token_a, o.token_b)
    IN  k \in DOMAIN d /\ d[k].price = p

\* C26: the buy venue of an emitted opportunity is the first venue, in the
\* snapshot's iteration order, that quotes the pair at the buy price, and
\* its sell venue the first that quotes it at the sell price.
C26_FirstVenueWinsTies ==
    \A o \in OppSet :
        /\ \E j \in 1..Len(price_data.order) :
              /\ price_data.order[j] = o.buy_dex
              /\ QuotesAt(j, o, o.buy_price)
              /\ \A i \in 1..(j - 1) : ~QuotesAt(i, o, o.buy_price)
        /\ \E j \in 1..Len(price_data.order) :
              /\ price_data.order[j] = o.sell_dex
              /\ QuotesAt(j, o, o.sell_price)
              /\ \A i \in 1..(j - 1) : ~QuotesAt(i, o, o.sell_price)

\* C26 witness: the first two venues quote a pair at the same lowest price
\* and the opportunity emitted for it buys at the first of them.
C26_Witness ==
    \E o \in OppSet :
        /\ Len(price_data.order) = 3
        /\ QuotesAt(1, o, o.buy_price) /\ QuotesAt(2, o, o.buy_price)
        /\ QuotesAt(3, o, o.sell_price)
        /\ o.buy_dex = price_data.order[1]

\* C27: for every emitted opportunity, no venue of the snapshot that holds
\* the pair's key quotes it below the buy price or above the sell price,
\* and the buy and sell venues quote it at exactly those prices.
C27_BuyIsMinSellIsMax ==
    \A o \in OppSet :
        LET k == PairKey(o.token_a, o.token_b)
        IN  /\ \A v \in Range(price_data.order) :
                  k \in DOMAIN price_data.map[v] =>
                      /\ o.buy_price <= price_data.map[v][k].price
                      /\ price_data.map[v][k].price <= o.sell_price
            /\ price_data.map[o.buy_dex][k].price = o.buy_price
            /\ price_data.map[o.sell_dex][k].price = o.sell_price

\* C27 witness: three venues quote a pair at three different prices, the
\* lowest at the last venue and the highest at the second; the opportunity
\* buys at the last and sells at the second.
C27_Witness ==
    \E o \in OppSet :
        /\ Len(price_data.order) = 3
        /\ o.buy_dex = price_data.order[3]
        /\ o.sell_dex = price_data.order[2]
        /\ \E p \in DirectPrices :
              QuotesAt(1, o, p) /\ o.buy_price < p /\ p < o.sell_price

\* The scenario's snapshot: three venues quoting SOL-USDC at 100.50, 101.20
\* and 100.80, in that order.
IsScenarioSnapshot(pd) ==
    /\ pd.order = <<"jupiter", "raydium", "meteora">>
    /\ \A v \in Range(pd.order) : DOMAIN pd.map[v] = {SOL_USDC}
    /\ pd.map["jupiter"][SOL_USDC].price = 10050
    /\ pd.map["raydium"][SOL_USDC].price = 10120
    /\ pd.map["meteora"][SOL_USDC].price = 10080

\* C7: on the scenario's snapshot with a threshold of 0.5 %, the scan
\* returns exactly one opportunity: buy at the first venue at 100.50, sell
\* at the second at 101.20, profit 0.696 %.
C7_ScenarioOneOpportunity ==
    (scanned /\ IsScenarioSnapshot(price_data)
        /\ settings.min_profit_threshold = 500)
    => /\ Len(opportunities) = 1
       /\ opportunities[1].token_a = "SOL" /\ opportunities[1].token_b = "USDC"
       /\ opportunities[1].buy_dex = "jupiter"
       /\ opportunities[1].buy_price = 10050
       /\ opportunities[1].sell_dex = "raydium"
       /\ opportunities[1].sell_price = 10120
       /\ opportunities[1].profit_percentage = 696

\* C7 witness: the scenario has been scanned and an opportunity returned.
C7_Witness ==
    /\ scanned /\ IsScenarioSnapshot(price_data)
    /\ settings.min_profit_threshold = 500
    /\ settings.max_concurrent_swaps = 5
    /\ opportunities # <<>>

\* The age, at the scan, of the entry an opportunity took a price from.
EntryAge(o, v) ==
    current_time - price_data.map[v][PairKey(o.token_a, o.token_b)].timestamp

\* C8: no emitted opportunity takes its buy price or its sell price from
\* an entry older than the staleness bound.
C8_NoStaleEntryUsed ==
    \A o \in OppSet :
        /\ EntryAge(o, o.buy_dex) <= StalenessBound
        /\ EntryAge(o, o.sell_dex) <= StalenessBound

(***************************************************************************)
(* SwapExecutor._build_swap_data and its slippage arithmetic               *)
(***************************************************************************)
RECURSIVE Pow2Mod(_, _)
Pow2Mod(n, m) == IF n = 0 THEN 1 % m ELSE (2 * Pow2Mod(n - 1, m)) % m

\* The smallest power of two that is at least n (n >= 1).
RECURSIVE Pow2AtLeast(_, _)
Pow2AtLeast(n, q) == IF q >= n THEN q ELSE Pow2AtLeast(n, 2 * q)

\* slippage_factor = (10000 - max_slippage_bps) / 10000 is the double
\* nearest to f / 10000, f = 10000 - bps.  For 0.5 <= f / 10000 <= 1 it is
\* m / 2^53 with m the integer nearest to f * 2^53 / 10000; FactorError is
\* m * 10000 - f * 2^53, the signed error in units of 1 / (10000 * 2^53).
FactorError(bps) ==
    LET f == 10000 - bps
        r == (f * Pow2Mod(53, 10000)) % 10000
    IN  IF 2 * r > 10000 THEN 10000 - r ELSE 0 - r

\* floor(a * f / 10000) and a * f mod 10000 without leaving 32 bits
ExactQuot(a, f) == (a \div 10000) * f + ((a % 10000) * f) \div 10000
ExactRem(a, f) == ((a % 10000) * f) % 10000

\* The double product current_amount * slippage_factor is the double
\* nearest to a * m / 2^53 = a*f/10000 + a*FactorError/(10000 * 2^53).
\* When a*f/10000 is an integer N and the factor's error is negative, the
\* product rounds to N only if it lies within half a unit in the last
\* place of N, that is if 2 * a * |error| <= 10000 * 2^k with 2^k the
\* smallest power of two >= N; otherwise it is the double below N.
ProductRoundsBelow(a, bps) ==
    LET f == 10000 - bps
        e == 0 - FactorError(bps)
        n == ExactQuot(a, f)
        hi == 2 * e * (a \div 10000) + (2 * e * (a % 10000)) \div 10000
        lo == (2 * e * (a % 10000)) % 10000
        q == Pow2AtLeast(n, 1)
    IN  /\ ExactRem(a, f) = 0 /\ n > 0 /\ e > 0
        /\ (hi > q \/ (hi = q /\ lo > 0))

\* Mutant: the slippage is added, (10000 + max_slippage_bps) / 10000.
SlippageAmountAdded(amount, bps) ==
    ExactQuot(amount, 10000 + bps)

\* min_amount_out = int(current_amount * slippage_factor), in doubles
SlippageAmount(amount, bps) ==
    IF ProductRoundsBelow(amount, bps)
    THEN ExactQuot(amount, 10000 - bps) - 1
    ELSE ExactQuot(amount, 10000 - bps)

\* dex_type_map
DexTypes == {"jupiter", "raydium", "phoenix", "meteora"}
DexType(d) == CASE d = "jupiter" -> 0 [] d = "raydium" -> 1
                [] d = "phoenix" -> 2 [] d = "meteora" -> 3

\* The swap instructions of the first n hops of the path, each hop's
\* amount being the minimum output of the one before.
RECURSIVE HopsUpTo(_, _, _)
HopsUpTo(req, bps, n) ==
    IF n = 0 THEN <<>>
    ELSE LET before == HopsUpTo(req, bps, n - 1)
             current_amount ==
                 IF n = 1 THEN req.swap_amount
                 ELSE before[n - 1].minimum_amount_out
             first == (n = 1)
         IN  Append(before,
                    [dex_type |-> DexType(req.dex_path[n]),
                     amount_in |-> current_amount,
                     minimum_amount_out |-> SlippageAmount(current_amount, bps),
                     token_mint_in |-> IF first THEN req.token_a ELSE req.token_b,
                     token_mint_out |-> IF first THEN req.token_b ELSE req.token_a])

\* A hop's venue is not in dex_type_map: "Unknown DEX in path",
\* _build_swap_data returns None.
UnknownDexInPath(dex_path) ==
    \E i \in 1..Len(dex_path) : dex_path[i] \notin DexTypes

BuildSwapData(req, st) ==
    IF UnknownDexInPath(req.dex_path)
    THEN [status |-> "None", slippage_bps |-> 0, swap_instructions |-> <<>>]
    ELSE [status |-> "built",
          slippage_bps |-> st.max_slippage_bps,
          swap_instructions |-> HopsUpTo(req, st.max_slippage_bps,
                                         Len(req.dex_path))]

\* One call of _build_swap_data.
BuildOrder ==
    /\ swap_data.status = "unbuilt"
    /\ swap_data' = BuildSwapData(swap_request, settings)
    /\ UNCHANGED swap_request

(***************************************************************************)
(* SpecOrder: one order built from an order size, a slippage setting and   *)
(* a venue path                                                            *)
(***************************************************************************)
OrderAmounts == (0..MaxAmount) \cup {1000000}
OrderSlippages == {0, 50, 600, 1000}
OrderPaths == { <<"jupiter", "raydium">>,
                <<"raydium", "meteora", "jupiter">>,
                <<"jupiter", "orca">> }

InitOrder ==
    /\ dex_clients = <<"jupiter", "raydium", "meteora">>
    /\ InitStore /\ InitTasks /\ InitExecIdle
    /\ settings \in { SettingsOf(500, 5, bps) : bps \in OrderSlippages }
    /\ current_time = 0
    /\ price_data = [order |-> <<>>, map |-> <<>>]
    /\ opportunities = <<>>
    /\ scanned = FALSE
    /\ swap_request \in [token_a : {"SOL"}, token_b : {"USDC"},
                         swap_amount : OrderAmounts, dex_path : OrderPaths]
    /\ swap_data = Unbuilt
    /\ InitSnapIdle /\ InitRateIdle

NextOrder == BuildOrder /\ UNCHANGED <<monitorVars, scanVars, execVars, snapVars, rateVars>>

SpecOrder == InitOrder /\ [][NextOrder]_vars

\* C10: in a built order every hop's minimumOut is
\* floor(amountIn * (10000 - maxSlippageBps) / 10000); with 50 bps and an
\* amountIn of 1_000_000 it is 995_000.
C10_MinimumOutIsFloor ==
    swap_data.status = "built" =>
        \A i \in 1..Len(swap_data.swap_instructions) :
            LET hop == swap_data.swap_instructions[i]
                f == 10000 - swap_data.slippage_bps
            IN  /\ hop.amount_in <= MaxAmount =>
                     /\ hop.minimum_amount_out * 10000 <= hop.amount_in * f
                     /\ hop.amount_in * f < (hop.minimum_amount_out + 1) * 10000
                /\ (hop.amount_in = 1000000 /\ swap_data.slippage_bps = 50) =>
                     hop.minimum_amount_out = 995000

LamportsPerSol == 1000000000

\* swap_amount = min(max_position_size, float(estimated_profit) * 10),
\* then int(swap_amount * 1e9); estimated_profit is held in hundredths.
OrderSize(o, st) ==
    IF o.estimated_profit * 10 >= st.max_position_size * PriceUnit
    THEN st.max_position_size * LamportsPerSol
    ELSE o.estimated_profit * 10 * (LamportsPerSol \div PriceUnit)

\* C29: every opportunity the scan returns is sized between 0 and the
\* configured cap, its size is the smaller of the cap and ten times its
\* estimated profit, and its estimated profit is not negative.
C29_SizeWithinCap ==
    scanned =>
        \A i \in 1..Len(opportunities) :
            LET o == opportunities[i]
                cap == settings.max_position_size * LamportsPerSol
                smaller == Min(settings.max_position_size * PriceUnit,
                               o.estimated_profit * 10)
            IN  /\ o.estimated_profit >= 0
                /\ OrderSize(o, settings) =
                      smaller * (LamportsPerSol \div PriceUnit)
                /\ 0 <= OrderSize(o, settings)
                /\ OrderSize(o, settings) <= cap

\* A pipeline task: the opportunity it runs, where it stands, how often it
\* has called send_transaction, and whether the backend call it is waiting
\* on is one the backend never answers.
NewTask(o, c) == [cycle |-> c, opp |-> o, pc |-> "created",
                  outcome |-> "pending", rank |-> 0,
                  sent |-> 0, silent |-> FALSE]

\* The awaits of _send_transaction on self.provider.connection
RpcStages == {"blockhash", "send", "confirm", "details"}

\* send_transaction calls made once the call in progress has come back
Submitted(t) == IF t.pc = "send" THEN t.sent + 1 ELSE t.sent

\* execute_opportunities: one task per opportunity, at most
\* max_concurrent_swaps of them
LaunchCount(opps, st) == Min(Len(opps), st.max_concurrent_swaps)

\* Mutant: every task of the dispatch is given the first opportunity.
LaunchedFirstOnly(opps, st, c) ==
    [i \in 1..LaunchCount(opps, st) |-> NewTask(opps[1], c)]

Launched(opps, st, c) ==
    [i \in 1..LaunchCount(opps, st) |-> NewTask(opps[i], c)]

InFlightSet == {i \in 1..Len(tasks) : tasks[i].pc # "done"}
InFlight == Cardinality(InFlightSet)

\* Mutant: a failing run takes the other unfinished runs down with it.
FinishRunCancelOthers(ts, i, outcome, n) ==
    [j \in 1..Len(ts) |->
        IF j = i THEN [ts[j] EXCEPT !.pc = "done", !.outcome = outcome, !.rank = n]
        ELSE IF outcome = "None" /\ ts[j].pc # "done"
             THEN [ts[j] EXCEPT !.pc = "done", !.outcome = "cancelled"]
             ELSE ts[j]]

\* A run returns: only its own task changes.
FinishRun(ts, i, outcome, n) ==
    [ts EXCEPT ![i].pc = "done", ![i].outcome = outcome, ![i].rank = n]

\* Mutant: the join returns as soon as one of the runs has finished.
GatherReadyFirst(ts, c) ==
    \E i \in 1..Len(ts) : ts[i].cycle = c /\ ts[i].pc = "done"

\* await asyncio.gather(*tasks, return_exceptions=True): every task of
\* this dispatch is done
GatherReady(ts, c) ==
    \A i \in 1..Len(ts) : ts[i].cycle = c => ts[i].pc = "done"

\* start(): ... await self.run_trading_loop()
AgentStart ==
    /\ loop_pc = "idle"
    /\ loop_pc' = "check"
    /\ UNCHANGED <<rpc_open, agent_stop_pc, trading_enabled, cycles, tasks, results, completed,
                   execution_stats, succeeded, performance_stats, scanVars>>

\* stop(): self.trading_enabled = False; await self.price_monitor.stop()
AgentStop ==
    /\ trading_enabled /\ loop_pc # "idle"
    /\ trading_enabled' = FALSE
    /\ MonitorStop
    /\ agent_stop_pc' = "monitor"
    /\ UNCHANGED <<rpc_open, loop_pc, cycles, tasks, results, completed,
                   execution_stats, succeeded, performance_stats, scanVars>>

\* stop(), once price_monitor.stop() has returned:
\* await self.rpc_client.close()
AgentStopCloses ==
    /\ agent_stop_pc = "monitor" /\ stop_pc = "returned"
    /\ rpc_open' = FALSE
    /\ agent_stop_pc' = "done"
    /\ UNCHANGED <<trading_enabled, loop_pc, cycles, tasks, results, completed,
                   execution_stats, succeeded, performance_stats, scanVars>>

\* One turn of "while self.trading_enabled": the scan, and the dispatch of
\* what it found up to "await asyncio.gather".
LoopScan ==
    /\ loop_pc = "check" /\ trading_enabled
    /\ cycles < MaxCycles
    /\ LET opps == FindArbitrageOpportunities(GetLatestPrices, settings, clock)
       IN  /\ current_time' = clock
           /\ price_data' = GetLatestPrices
           /\ opportunities' = opps
           /\ scanned' = TRUE
           /\ tasks' = tasks \o Launched(opps, settings, cycles)
           /\ loop_pc' = IF LaunchCount(opps, settings) > 0
                         THEN "dispatch" ELSE "sleep"
           /\ results' = IF LaunchCount(opps, settings) > 0
                         THEN results ELSE <<>>
    /\ UNCHANGED <<rpc_open, agent_stop_pc, trading_enabled, cycles, completed, execution_stats, succeeded,
                   performance_stats, settings>>

\* Mutant: the loop that finds trading disabled sleeps and tests again.
LoopExitSleeps ==
    /\ loop_pc = "check" /\ ~trading_enabled
    /\ loop_pc' = "sleep"
    /\ UNCHANGED <<rpc_open, agent_stop_pc, trading_enabled, cycles, tasks, results, completed,
                   execution_stats, succeeded, performance_stats, scanVars>>

\* "while self.trading_enabled" is false: the loop ends
LoopExit ==
    /\ loop_pc = "check" /\ ~trading_enabled
    /\ loop_pc' = "exited"
    /\ UNCHANGED <<rpc_open, agent_stop_pc, trading_enabled, cycles, tasks, results, completed,
                   execution_stats, succeeded, performance_stats, scanVars>>

\* Mutant: only the runs that returned a result are collected.
GatherDoneDropsFailed ==
    /\ loop_pc = "dispatch"
    /\ GatherReady(tasks, cycles)
    /\ results' = [r \in 1..Len(SelectSeq(tasks, LAMBDA t :
                              t.cycle = cycles /\ t.outcome = "result")) |->
                     LET t == SelectSeq(tasks, LAMBDA u :
                                  u.cycle = cycles /\ u.outcome = "result")[r]
                     IN  [outcome |-> t.outcome, rank |-> t.rank,
                          sent |-> t.sent]]
    /\ tasks' = SelectSeq(tasks, LAMBDA t : t.pc # "done")
    /\ loop_pc' = "sleep"
    /\ UNCHANGED <<rpc_open, agent_stop_pc, trading_enabled, cycles, completed, execution_stats, succeeded,
                   performance_stats, scanVars>>

\* gather returns: the outcomes of this dispatch's runs, in launch order
GatherDone ==
    /\ loop_pc = "dispatch"
    /\ GatherReady(tasks, cycles)
    /\ results' = [r \in 1..Len(SelectSeq(tasks, LAMBDA t : t.cycle = cycles)) |->
                     LET t == SelectSeq(tasks, LAMBDA u : u.cycle = cycles)[r]
                     IN  [outcome |-> t.outcome, rank |-> t.rank,
                          sent |-> t.sent]]
    /\ tasks' = SelectSeq(tasks, LAMBDA t : t.pc # "done")
    /\ loop_pc' = "sleep"
    /\ UNCHANGED <<rpc_open, agent_stop_pc, trading_enabled, cycles, completed, execution_stats, succeeded,
                   performance_stats, scanVars>>

\* await asyncio.sleep(settings.price_update_interval)
LoopSleepDone ==
    /\ loop_pc = "sleep"
    /\ loop_pc' = "check"
    /\ cycles' = cycles + 1
    /\ UNCHANGED <<rpc_open, agent_stop_pc, trading_enabled, tasks, results, completed,
                   execution_stats, succeeded, performance_stats, scanVars>>

\* find_arbitrage_opportunities raises (an entry without a price, a price
\* that cannot be compared): "except Exception" in run_trading_loop logs it.
ScanRaises ==
    /\ loop_pc = "check" /\ trading_enabled
    /\ cycles < MaxCycles
    /\ loop_pc' = "error_sleep"
    /\ UNCHANGED <<rpc_open, agent_stop_pc, trading_enabled, cycles, tasks,
                   results, completed, execution_stats, succeeded, performance_stats,
                   scanVars>>

\* execute_opportunities raises while it goes through what gather returned:
\* the same handler.
DispatchRaises ==
    /\ loop_pc = "dispatch"
    /\ GatherReady(tasks, cycles)
    /\ tasks' = SelectSeq(tasks, LAMBDA t : t.pc # "done")
    /\ loop_pc' = "error_sleep"
    /\ UNCHANGED <<rpc_open, agent_stop_pc, trading_enabled, cycles, results,
                   completed, execution_stats, succeeded, performance_stats, scanVars>>

\* Mutant: the handler re-raises and run_trading_loop ends.
ErrorSleepDoneExits ==
    /\ loop_pc = "error_sleep"
    /\ loop_pc' = "exited"
    /\ cycles' = cycles + 1
    /\ UNCHANGED <<rpc_open, agent_stop_pc, trading_enabled, tasks, results,
                   completed, execution_stats, succeeded, performance_stats, scanVars>>

\* await asyncio.sleep(1.0) in the handler, then "while self.trading_enabled"
ErrorSleepDone ==
    /\ loop_pc = "error_sleep"
    /\ loop_pc' = "check"
    /\ cycles' = cycles + 1
    /\ UNCHANGED <<rpc_open, agent_stop_pc, trading_enabled, tasks, results,
                   completed, execution_stats, succeeded, performance_stats, scanVars>>

\* Mutant: the failure is not counted (the increment is lost).
RunFailsUncounted(i) ==
    /\ tasks' = FinishRun([tasks EXCEPT ![i].sent = Submitted(tasks[i])],
                          i, "None", completed + 1)
    /\ completed' = completed + 1
    /\ UNCHANGED <<execution_stats, succeeded, performance_stats>>

\* Mutant: the average is taken over the attempts, not over the successes.
update_average_over_attempts(stats, execution_time) ==
    LET total == stats.total_attempts
        current_avg == stats.average_execution_time
    IN  [stats EXCEPT !.average_execution_time =
            Fraction(current_avg.num * (total - 1)
                        + execution_time * current_avg.den,
                     current_avg.den * total)]

\* _update_average_execution_time:
\* new_avg = ((current_avg * (total_successful - 1)) + execution_time)
\*           / total_successful
update_average_execution_time(stats, execution_time) ==
    LET total_successful == stats.successful_swaps
        current_avg == stats.average_execution_time
    IN  [stats EXCEPT !.average_execution_time =
            Fraction(current_avg.num * (total_successful - 1)
                        + execution_time * current_avg.den,
                     current_avg.den * total_successful)]

\* "execution_time = time.time() - start_time", in ticks.
ElapsedTimes == {1, 2}

\* A run ends without a result: failed_swaps += 1, execute_arbitrage_swap
\* and execute_single_opportunity return None.
RunFails(i) ==
    /\ tasks' = FinishRun([tasks EXCEPT ![i].sent = Submitted(tasks[i])],
                          i, "None", completed + 1)
    /\ completed' = completed + 1
    /\ execution_stats' =
          [execution_stats EXCEPT !.failed_swaps = @ + 1]
    /\ UNCHANGED <<succeeded, performance_stats>>

\* The task starts: execute_single_opportunity up to _get_swap_accounts
\* (total_attempts += 1, _build_swap_data).
TaskStart(i) ==
    /\ i \in 1..Len(tasks) /\ tasks[i].pc = "created"
    /\ IF UnknownDexInPath(tasks[i].opp.swap_path)
       THEN /\ tasks' = FinishRun(tasks, i, "None", completed + 1)
            /\ completed' = completed + 1
            /\ execution_stats' =
                  [execution_stats EXCEPT !.total_attempts = @ + 1,
                                          !.failed_swaps = @ + 1]
       ELSE /\ tasks' = [tasks EXCEPT ![i].pc = "accounts"]
            /\ completed' = completed
            /\ execution_stats' =
                  [execution_stats EXCEPT !.total_attempts = @ + 1]
    /\ UNCHANGED <<rpc_open, agent_stop_pc, trading_enabled, loop_pc, cycles, results,
                   succeeded, performance_stats, scanVars>>

\* Mutant: a confirmation that came back is followed by a second submission.
NextStageResubmit(pc) == CASE pc = "accounts" -> "blockhash"
                           [] pc = "blockhash" -> "send"
                           [] pc = "send" -> "confirm"
                           [] pc = "confirm" -> "send"

\* The awaits of the pipeline in program order: _get_swap_accounts,
\* get_latest_blockhash, send_transaction, confirm_transaction,
\* get_transaction.
NextStage(pc) == CASE pc = "accounts" -> "blockhash"
                   [] pc = "blockhash" -> "send"
                   [] pc = "send" -> "confirm"
                   [] pc = "confirm" -> "details"

\* A step of the pipeline returns normally: _get_swap_accounts, then in
\* _send_transaction get_latest_blockhash, send_transaction and
\* confirm_transaction without err.
BackendOk(i) ==
    /\ i \in 1..Len(tasks) /\ tasks[i].pc \in {"accounts", "blockhash", "send", "confirm"}
    /\ tasks[i].pc \in RpcStages => (rpc_open /\ ~tasks[i].silent)
    /\ tasks' = [tasks EXCEPT ![i].pc = NextStage(tasks[i].pc),
                              ![i].sent = Submitted(tasks[i])]
    /\ UNCHANGED <<rpc_open, agent_stop_pc, trading_enabled, loop_pc, cycles, results, completed,
                   execution_stats, succeeded, performance_stats, scanVars>>

\* The order's accounts cannot be built, a backend call raises, or the
\* confirmation carries an error: execute_arbitrage_swap returns None.
BackendFails(i) ==
    /\ i \in 1..Len(tasks)
    /\ tasks[i].pc \in {"accounts", "blockhash", "send", "confirm", "details"}
    /\ tasks[i].silent => ~rpc_open
    /\ RunFails(i)
    /\ UNCHANGED <<rpc_open, agent_stop_pc, trading_enabled, loop_pc, cycles, results, scanVars>>

\* get_transaction returns: successful_swaps += 1, the average is updated
\* with the run's execution_time, the result is returned and
\* update_performance_stats(success=True) counts the trade.
RunSucceeds(i) ==
    /\ i \in 1..Len(tasks) /\ tasks[i].pc = "details"
    /\ rpc_open /\ ~tasks[i].silent
    /\ tasks' = FinishRun(tasks, i, "result", completed + 1)
    /\ completed' = completed + 1
    /\ \E execution_time \in ElapsedTimes :
          /\ execution_stats' =
                update_average_execution_time(
                    [execution_stats EXCEPT !.successful_swaps = @ + 1],
                    execution_time)
          /\ succeeded' = [runs |-> succeeded.runs + 1,
                           elapsed |-> succeeded.elapsed + execution_time]
    /\ performance_stats' =
          [performance_stats EXCEPT !.total_trades = @ + 1,
                                    !.successful_trades = @ + 1]
    /\ UNCHANGED <<rpc_open, agent_stop_pc, trading_enabled, loop_pc, cycles, results, scanVars>>

\* The backend never answers the call the run is waiting on.  No await of
\* _send_transaction carries a timeout, so the run stays suspended; only
\* closing the connection makes the call raise.
BackendSilent(i) ==
    /\ i \in 1..Len(tasks) /\ tasks[i].pc \in RpcStages
    /\ rpc_open /\ ~tasks[i].silent
    /\ tasks' = [tasks EXCEPT ![i].silent = TRUE]
    /\ UNCHANGED <<rpc_open, agent_stop_pc, trading_enabled, loop_pc, cycles,
                   results, completed, execution_stats, succeeded, performance_stats,
                   scanVars>>

(***************************************************************************)
(* Spec: the engine.  Two venue loops fill the store while the trading     *)
(* loop scans it and dispatches what it finds.                             *)
(***************************************************************************)
\* What venue v answers at time ts.
EngineFeed(v, ts) ==
    [k \in {SOL_USDC, USDC_SOL} |->
        IF v = "jupiter"
        THEN (IF k = SOL_USDC THEN Entry(10050, ts) ELSE Entry(1, ts))
        ELSE (IF k = SOL_USDC THEN Entry(10120, ts) ELSE Entry(2, ts))]

Init ==
    /\ dex_clients = <<"jupiter", "raydium">>
    /\ InitStore /\ InitTasks
    /\ settings \in { SettingsOf(500, conc, 50) : conc \in {1, 2} }
    /\ current_time = 0
    /\ price_data = [order |-> <<>>, map |-> <<>>]
    /\ opportunities = <<>>
    /\ scanned = FALSE
    /\ InitExecIdle /\ InitOrderIdle /\ InitSnapIdle /\ InitRateIdle

Next ==
    \/ (MonitorStart /\ UNCHANGED <<scanVars, execVars, orderVars, snapVars, rateVars>>)
    \/ (/\ clock < MaxEnginePolls
        /\ \E v \in AllVenues : PollSuccess(v, EngineFeed(v, clock + 1))
        /\ UNCHANGED <<scanVars, execVars, orderVars, snapVars, rateVars>>)
    \/ ((\E v \in AllVenues : IntervalDone(v))
            /\ UNCHANGED <<scanVars, execVars, orderVars, snapVars, rateVars>>)
    \/ (monitoring /\ AgentStart /\ UNCHANGED <<monitorVars, orderVars, snapVars, rateVars>>)
    \/ (AgentStop /\ UNCHANGED <<orderVars, snapVars, rateVars>>)
    \/ ((\E v \in AllVenues : Cancelled(v))
            /\ UNCHANGED <<scanVars, execVars, orderVars, snapVars, rateVars>>)
    \/ (LoopScan /\ UNCHANGED <<monitorVars, orderVars, snapVars, rateVars>>)
    \/ (LoopExit /\ UNCHANGED <<monitorVars, orderVars, snapVars, rateVars>>)
    \/ (GatherDone /\ UNCHANGED <<monitorVars, orderVars, snapVars, rateVars>>)
    \/ (LoopSleepDone /\ UNCHANGED <<monitorVars, orderVars, snapVars, rateVars>>)
    \/ ((\E i \in 1..Len(tasks) : TaskStart(i)) /\ UNCHANGED <<monitorVars, orderVars, snapVars, rateVars>>)
    \/ ((\E i \in 1..Len(tasks) : BackendOk(i)) /\ UNCHANGED <<monitorVars, orderVars, snapVars, rateVars>>)
    \/ ((\E i \in 1..Len(tasks) : BackendFails(i)) /\ UNCHANGED <<monitorVars, orderVars, snapVars, rateVars>>)
    \/ ((\E i \in 1..Len(tasks) : RunSucceeds(i)) /\ UNCHANGED <<monitorVars, orderVars, snapVars, rateVars>>)

Spec == Init /\ [][Next]_vars

\* C1: at every instant the pipeline runs launched and not yet finished
\* number at most max_concurrent_swaps.
C1_InFlightBounded == InFlight <= settings.max_concurrent_swaps

\* C1 witness: in a later loop turn, max_concurrent_swaps = 2 runs are in
\* flight at once, both already past their start.
C1_Witness ==
    /\ cycles >= 1 /\ settings.max_concurrent_swaps = 2
    /\ InFlight = 2
    /\ \A i \in InFlightSet : tasks[i].pc # "created"

\* C2: while a dispatch is being joined no run is cancelled, and when the
\* join returns every launched run has finished and its own outcome, a
\* result or None, is what was collected for it.
C2_FailureIsolated ==
    /\ \A i \in 1..Len(tasks) : tasks[i].outcome # "cancelled"
    /\ (loop_pc = "sleep" /\ results # <<>>) =>
          /\ Len(results) = LaunchCount(opportunities, settings)
          /\ \A r \in 1..Len(results) :
                results[r].outcome \in {"result", "None"}

\* C2 witness: a join returned two outcomes: the first run to finish
\* failed, the other run finished after it with a result.
C2_Witness ==
    /\ loop_pc = "sleep" /\ Len(results) = 2
    /\ \E r, q \in 1..2 :
          /\ results[r].outcome = "None"
          /\ results[q].outcome = "result"
          /\ results[r].rank < results[q].rank

\* C14: a pipeline run calls send_transaction at most once, and a run that
\* has failed is finished: it makes no further call.
C14_SubmittedAtMostOnce ==
    /\ \A i \in 1..Len(tasks) :
          /\ tasks[i].sent <= 1
          /\ tasks[i].outcome = "None" => tasks[i].pc = "done"
    /\ \A r \in 1..Len(results) : results[r].sent <= 1

\* C14 witness: a dispatch returned with a run that failed after its one
\* submission and a run that succeeded with its one submission.
C14_Witness ==
    /\ loop_pc = "sleep"
    /\ \E r, q \in 1..Len(results) :
          /\ results[r].outcome = "None" /\ results[r].sent = 1
          /\ results[q].outcome = "result" /\ results[q].sent = 1

\* C19: whenever the trading loop is past a dispatch, at its sleep or at
\* the test that starts its next turn, no pipeline task is left: every run
\* the dispatch launched has finished.
C19_DispatchJoinsAllRuns ==
    loop_pc \in {"sleep", "check", "exited"} =>
        /\ tasks = <<>>
        /\ \A r \in 1..Len(results) : results[r].outcome # "pending"

\* C19 witness: the loop is about to start a new turn after a dispatch of
\* two runs, which finished one after the other.
C19_Witness ==
    /\ loop_pc = "check" /\ cycles >= 1 /\ trading_enabled
    /\ Len(results) = 2 /\ completed >= 2
    /\ results[1].rank # results[2].rank

\* C20: every finished run is counted once, as a successful or as a failed
\* swap, and when a dispatch has been joined there is one outcome for each
\* opportunity it admitted, a result or the failure value None, each from
\* a run of its own.
C20_OneOutcomePerOpportunity ==
    /\ execution_stats.successful_swaps + execution_stats.failed_swaps
          = completed
    /\ performance_stats.successful_trades = execution_stats.successful_swaps
    /\ (loop_pc = "sleep" /\ opportunities # <<>>) =>
          /\ Len(results) = Min(Len(opportunities),
                                settings.max_concurrent_swaps)
          /\ \A r \in 1..Len(results) :
                /\ results[r].outcome \in {"result", "None"}
                /\ results[r].rank \in 1..completed
                /\ \A q \in 1..Len(results) :
                      q # r => results[q].rank # results[r].rank

\* C20 witness: a dispatch of two opportunities has been joined with a
\* failed first run and a successful second one, each counted once.
C20_Witness ==
    /\ loop_pc = "sleep" /\ Len(opportunities) = 2 /\ Len(results) = 2
    /\ results[1].outcome = "None" /\ results[2].outcome = "result"
    /\ execution_stats.failed_swaps = 1
    /\ execution_stats.successful_swaps = 1
    /\ completed = 2

\* Runs that have entered execute_arbitrage_swap and not yet returned.
StartedSet == {i \in InFlightSet : tasks[i].pc # "created"}

\* C21: total_attempts counts every run that has started, and once no run
\* is in flight successful_swaps + failed_swaps equals total_attempts and
\* the number of runs that finished: no increment is lost or doubled.
C21_CountersAddUp ==
    /\ execution_stats.total_attempts = completed + Cardinality(StartedSet)
    /\ InFlight = 0 =>
          /\ execution_stats.total_attempts = completed
          /\ execution_stats.successful_swaps + execution_stats.failed_swaps
                = execution_stats.total_attempts

\* C21 witness: no run is in flight after two runs ran concurrently and
\* the one launched second finished first; one succeeded and one failed.
C21_Witness ==
    /\ InFlight = 0 /\ Len(results) = 2 /\ loop_pc = "sleep"
    /\ results[2].rank < results[1].rank
    /\ execution_stats.total_attempts = 2
    /\ execution_stats.successful_swaps = 1
    /\ execution_stats.failed_swaps = 1

\* C23: the pipeline tasks that exist were all launched in the current
\* loop turn, each for a different opportunity of that turn's scan, and
\* tasks are created only by the step that makes a scan, so no opportunity
\* is launched a second time in its dispatch or in a later turn.
C23_OpportunityLaunchedOnce ==
    /\ [](\A i, j \in 1..Len(tasks) :
             /\ tasks[i].cycle = cycles
             /\ tasks[i].opp \in Range(opportunities)
             /\ i # j => tasks[i].opp # tasks[j].opp)
    /\ [][Len(tasks') > Len(tasks) =>
             /\ tasks = <<>> /\ loop_pc = "check" /\ loop_pc' = "dispatch"
             /\ current_time' = clock
             /\ Len(tasks') <= Len(opportunities')]_vars
    /\ [][(loop_pc = "dispatch" /\ loop_pc' # "dispatch") =>
             (tasks' = <<>> /\ loop_pc' # "check")]_vars

\* C23 witness: in the loop's second turn two tasks have just been launched
\* for the two opportunities of that turn's scan.
C23_Witness ==
    /\ cycles = 1 /\ loop_pc = "dispatch"
    /\ Len(tasks) = 2 /\ Len(opportunities) = 2
    /\ tasks[1].pc = "created" /\ tasks[2].pc = "created"
    /\ tasks[1].opp = opportunities[1] /\ tasks[2].opp = opportunities[2]

\* C30: whatever the order in which the runs finish, average_execution_time
\* is the arithmetic mean of the execution times of the runs that succeeded
\* so far (0.0 before the first), the update divides by the count of
\* successes with the current one included, and a step that counts a
\* failure leaves the average as it was.
C30_AverageIsMean ==
    /\ [](/\ execution_stats.successful_swaps = succeeded.runs
          /\ execution_stats.average_execution_time.den > 0
          /\ execution_stats.average_execution_time.num * succeeded.runs
                = succeeded.elapsed * execution_stats.average_execution_time.den
          /\ succeeded.runs = 0 =>
                execution_stats.average_execution_time = Fraction(0, 1))
    /\ [][execution_stats'.successful_swaps = execution_stats.successful_swaps
            => execution_stats'.average_execution_time
                  = execution_stats.average_execution_time]_vars

\* Two runs were in flight together and both succeeded, one in one tick and
\* one in two, after a run that failed: the average is 3/2.
C30_Witness ==
    /\ execution_stats.failed_swaps >= 1
    /\ execution_stats.successful_swaps = 2
    /\ execution_stats.average_execution_time = [num |-> 3, den |-> 2]
    /\ Len(tasks) = 2
    /\ tasks[1].outcome = "result" /\ tasks[2].outcome = "result"

\* C38: performance_stats counts every finished pipeline run once:
\* total_trades is the number of runs finished, successful or failed, and
\* successful_trades the number of those that returned a result.
C38_TradesCountEveryRun ==
    /\ performance_stats.total_trades = completed
    /\ performance_stats.successful_trades = succeeded.runs
    /\ performance_stats.total_trades
          = execution_stats.successful_swaps + execution_stats.failed_swaps

(***************************************************************************)
(* SpecDispatch: execute_opportunities on a list of opportunities some of  *)
(* which name a venue the executor has no DexType for                      *)
(***************************************************************************)
\* An ArbitrageOpportunity whose swap_path is the given venue sequence.
OpportunityOn(path) ==
    [token_a |-> "SOL", token_b |-> "USDC",
     buy_dex |-> path[1], sell_dex |-> path[2],
     buy_price |-> 10050, sell_price |-> 10120,
     profit_percentage |-> ProfitPercentage(10050, 10120),
     estimated_profit |-> calculate_profit(10050, 10120, 1),
     swap_path |-> path, timestamp |-> 0]

\* execute_opportunities has created a task for each opportunity it admits.
InitDispatch ==
    /\ dex_clients = <<"jupiter", "raydium">>
    /\ InitStore /\ InitTasks /\ InitOrderIdle /\ InitSnapIdle /\ InitRateIdle
    /\ settings \in { SettingsOf(500, conc, 50) : conc \in {2, 3} }
    /\ current_time = 0
    /\ price_data = [order |-> <<>>, map |-> <<>>]
    /\ \E n \in {2, 3} :
          opportunities \in
             [1..n -> { OpportunityOn(<<"jupiter", "raydium">>),
                        OpportunityOn(<<"jupiter", "orca">>) }]
    /\ scanned = TRUE
    /\ trading_enabled = TRUE
    /\ loop_pc = "dispatch"
    /\ cycles = 0
    /\ tasks = Launched(opportunities, settings, 0)
    /\ results = <<>>
    /\ completed = 0
    /\ execution_stats = [total_attempts |-> 0, successful_swaps |-> 0,
                          failed_swaps |-> 0,
                          average_execution_time |-> Fraction(0, 1)]
    /\ succeeded = [runs |-> 0, elapsed |-> 0]
    /\ performance_stats = [total_trades |-> 0, successful_trades |-> 0]
    /\ rpc_open = TRUE
    /\ agent_stop_pc = "idle"

NextDispatch ==
    \/ ((\E i \in 1..Len(tasks) : TaskStart(i)) /\ UNCHANGED <<monitorVars, orderVars, snapVars, rateVars>>)
    \/ ((\E i \in 1..Len(tasks) : BackendOk(i)) /\ UNCHANGED <<monitorVars, orderVars, snapVars, rateVars>>)
    \/ ((\E i \in 1..Len(tasks) : BackendFails(i)) /\ UNCHANGED <<monitorVars, orderVars, snapVars, rateVars>>)
    \/ ((\E i \in 1..Len(tasks) : RunSucceeds(i)) /\ UNCHANGED <<monitorVars, orderVars, snapVars, rateVars>>)
    \/ (GatherDone /\ UNCHANGED <<monitorVars, orderVars, snapVars, rateVars>>)

SpecDispatch == InitDispatch /\ [][NextDispatch]_vars

\* C33: a run whose venue path names an unknown venue never reaches a call
\* of the execution backend and submits nothing; the step in which its
\* order construction fails counts one attempt and one failure, ends the
\* run with None, and leaves every other run of the dispatch as it was.
C33_BuildFailureAbortsOnlyThatRun ==
    /\ [](\A i \in 1..Len(tasks) :
             UnknownDexInPath(tasks[i].opp.swap_path) =>
                /\ tasks[i].pc \in {"created", "done"}
                /\ tasks[i].sent = 0
                /\ tasks[i].pc = "done" => tasks[i].outcome = "None")
    /\ [][\A i \in 1..Len(tasks) :
             (/\ UnknownDexInPath(tasks[i].opp.swap_path)
              /\ tasks[i].pc = "created"
              /\ Len(tasks') = Len(tasks) /\ tasks'[i].pc = "done")
                => /\ execution_stats'.total_attempts
                         = execution_stats.total_attempts + 1
                   /\ execution_stats'.failed_swaps
                         = execution_stats.failed_swaps + 1
                   /\ execution_stats'.successful_swaps
                         = execution_stats.successful_swaps
                   /\ \A j \in 1..Len(tasks) :
                         j # i => tasks'[j] = tasks[j]]_vars

\* The dispatch was joined: the first run failed at order construction
\* before the second had finished, and the second then succeeded with its
\* one submission.
C33_Witness ==
    /\ loop_pc = "sleep" /\ Len(results) = 2
    /\ opportunities[1].swap_path = <<"jupiter", "orca">>
    /\ results[1].outcome = "None" /\ results[1].sent = 0
    /\ results[2].outcome = "result" /\ results[2].sent = 1
    /\ results[1].rank = 1 /\ results[2].rank = 2
    /\ execution_stats.failed_swaps = 1
    /\ execution_stats.total_attempts = 2

(***************************************************************************)
(* SpecLoop: the engine with trading-loop turns that raise.                *)
(***************************************************************************)
NextLoop ==
    \/ Next
    \/ (ScanRaises /\ UNCHANGED <<monitorVars, orderVars, snapVars, rateVars>>)
    \/ (DispatchRaises /\ UNCHANGED <<monitorVars, orderVars, snapVars, rateVars>>)
    \/ (ErrorSleepDone /\ UNCHANGED <<monitorVars, orderVars, snapVars, rateVars>>)

\* The handler's sleep runs out and the event loop resumes the trading loop.
FairLoop == WF_vars(ErrorSleepDone /\ UNCHANGED <<monitorVars, orderVars, snapVars, rateVars>>)

SpecLoop == Init /\ [][NextLoop]_vars /\ FairLoop

\* C16: the trading loop has ended only if trading was disabled, and a turn
\* that raised is followed by the loop's next test of trading_enabled.
C16_LoopSurvivesErrors ==
    /\ [](loop_pc = "exited" => ~trading_enabled)
    /\ (loop_pc = "error_sleep") ~> (loop_pc = "check")

\* C16 witness: trading is enabled and the loop is at its second turn after
\* a first turn whose scan raised (no scan has completed yet).
C16_Witness ==
    /\ trading_enabled /\ loop_pc = "check"
    /\ cycles = 1 /\ ~scanned

(***************************************************************************)
(* SpecShutdown: the engine with the rest of stop() (the connection is     *)
(* closed once the monitor has stopped) and a backend that may leave a     *)
(* call unanswered, under the event loop's scheduling.                     *)
(***************************************************************************)
NextShutdown ==
    \/ Next
    \/ ((\E i \in 1..Len(tasks) : BackendSilent(i)) /\ UNCHANGED <<monitorVars, orderVars, snapVars, rateVars>>)
    \/ (MonitorStopReturns /\ UNCHANGED <<scanVars, execVars, orderVars, snapVars, rateVars>>)
    \/ (AgentStopCloses /\ UNCHANGED <<monitorVars, orderVars, snapVars, rateVars>>)

\* The steps the event loop takes for the stopping coroutines: a
\* cancellation is delivered, a finished gather resumes stop(), stop() closes
\* the connection.
StopStep ==
    \/ ((\E v \in AllVenues : Cancelled(v))
            /\ UNCHANGED <<scanVars, execVars, orderVars, snapVars, rateVars>>)
    \/ (MonitorStopReturns /\ UNCHANGED <<scanVars, execVars, orderVars, snapVars, rateVars>>)
    \/ (AgentStopCloses /\ UNCHANGED <<monitorVars, orderVars, snapVars, rateVars>>)

\* The steps of the trading loop that wait for nothing outside the program.
LoopStep ==
    (GatherDone \/ LoopSleepDone \/ LoopExit)
        /\ UNCHANGED <<monitorVars, orderVars, snapVars, rateVars>>

\* A pipeline task starts, or the backend call it waits on is answered
\* with a result or an error.
PipelineStep ==
    (\E i \in 1..Len(tasks) :
        TaskStart(i) \/ BackendOk(i) \/ BackendFails(i) \/ RunSucceeds(i))
        /\ UNCHANGED <<monitorVars, orderVars, snapVars, rateVars>>

\* The event loop runs every coroutine that is ready, and a backend call
\* that is going to be answered is answered in the end.
FairEngine ==
    /\ WF_vars(StopStep)
    /\ WF_vars(LoopStep)
    /\ WF_vars(PipelineStep)

SpecShutdown == Init /\ [][NextShutdown]_vars /\ FairEngine

\* C12: the backend connection is closed by stop() only when no pipeline
\* run is in flight: every run launched before the stop has finished on an
\* open connection.
C12_RunsDrainedBeforeClose == ~rpc_open => InFlight = 0

\* C13: every launched pipeline run finishes in the end, whatever the
\* backend does, so the dispatch that waits for it returns.
C13_EveryRunFinishes ==
    /\ (InFlight > 0) ~> (InFlight = 0)
    /\ (loop_pc = "dispatch") ~> (loop_pc # "dispatch")

\* C37: once stop() has set trading_enabled to False it stays False, no
\* pipeline task is created any more, the loop's next test of the flag
\* ends it (no further turn begins), and the loop does end.
C37_StopEndsTradingLoop ==
    /\ [][~trading_enabled =>
            /\ ~trading_enabled'
            /\ Len(tasks') <= Len(tasks)
            /\ cycles' <= cycles + 1
            /\ loop_pc = "check" => loop_pc' \in {"check", "exited"}
            /\ loop_pc = "exited" => loop_pc' = "exited"]_vars
    /\ (~trading_enabled) ~> (loop_pc = "exited")

\* stop() was called during a dispatch whose run was waiting on a call the
\* backend never answered; the connection was closed, the run failed, the
\* dispatch returned and the loop ended after that turn.
C37_Witness ==
    /\ ~trading_enabled /\ loop_pc = "exited" /\ agent_stop_pc = "done"
    /\ cycles >= 1 /\ results # <<>>
    /\ \E r \in 1..Len(results) : results[r].outcome = "None"
    /\ execution_stats.failed_swaps >= 1

=============================================================================
